---- MODULE Spec2Model ----
(***************************************************************************)
(* The Spectra steno lexer: StenoLexer.query / _gather_results /          *)
(* _generate_maps (spectra_lexer/steno/lexer/base.py), the key removal of  *)
(* spectra_lexer/utils.py, and the collaborators the lexer calls           *)
(* (StenoKeys, LexerRuleMatcher, LexerResult) as the specification         *)
(* describes them.                                                         *)
(*                                                                         *)
(* Strings are sequences of one-character strings.  Keys are upper-case    *)
(* tokens, letters are lower-case tokens; a word may begin with an         *)
(* upper-case letter, which the search lowers.                             *)
(***************************************************************************)
EXTENDS Integers, Sequences, FiniteSets, TLC

\* ------------------------------------------------------------------ bounds
MaxKeys == 2
MaxWord == 2
MaxQueries == 2
MaxIter == 2
MaxItems == 2
MaxChildren == 2
MaxDialogs == 4

\* --------------------------------------------------------------- alphabets
\* Tokens the key canonicalisation recognises.
KeyAlphabet == {"S", "T", "E", "F"}
\* The recognised tokens the generated key strings are made of.
StrokeTokens == {"S", "T"}
\* A token of raw stroke notation the canonicalisation does not recognise.
JunkToken == "?"
\* Lower-case letters of a word, and the upper-case form of one of them.
LetterAlphabet == {"a", "b"}
UpperA == "A"
\* The upper-case form of the letter "t" (a word's "T", not the key T).
UpperT == "T"

SeqsUpTo(S, n) == UNION {[1..k -> S] : k \in 0..n}

\* The raw key strings queried: every string of at most MaxKeys recognised
\* tokens, and the same strings with an unrecognised token in front.
RawStrokes ==
  SeqsUpTo(StrokeTokens, MaxKeys)
    \cup {<<JunkToken>> \o k : k \in SeqsUpTo(StrokeTokens, MaxKeys - 1)}

\* The words queried: every lower-case word of at most MaxWord letters, and
\* the capitalised form of those that begin with "a".
Words ==
  SeqsUpTo(LetterAlphabet, MaxWord)
    \cup {<<UpperA>> \o w : w \in SeqsUpTo(LetterAlphabet, MaxWord - 1)}

\* ------------------------------------------------------------- the rules
\* The rule definitions a repository is drawn from: key pattern and letter
\* pattern.  Every key pattern is non-empty; a letter pattern may be empty.
GeneratedRules ==
  << [keys |-> <<"S">>,      letters |-> <<>>],
     [keys |-> <<"S">>,      letters |-> <<"a">>],
     [keys |-> <<"T">>,      letters |-> <<"b">>],
     [keys |-> <<"T">>,      letters |-> <<"a">>],
     [keys |-> <<"S", "T">>, letters |-> <<"a", "b">>] >>

\* The primitive rules of the example query TEFT -> test: T->t, E->e, F->f,
\* and a rule F->s that the example does not list.
PrimitiveRules ==
  << [keys |-> <<"T">>, letters |-> <<"t">>],
     [keys |-> <<"E">>, letters |-> <<"e">>],
     [keys |-> <<"F">>, letters |-> <<"f">>],
     [keys |-> <<"F">>, letters |-> <<"s">>] >>

RuleUniverse == GeneratedRules \o PrimitiveRules

\* The rules the repositories of the generated queries are drawn from.
RuleIds == 1..Len(GeneratedRules)

\* The repository of the example, and the rule F->s.
ExampleIds == {Len(GeneratedRules) + k : k \in 1..3}
RuleFs == Len(GeneratedRules) + 4

\* More frames than a search can hold at once: every frame on the stack has
\* a rule map of at most MaxKeys items, and each pass of the loop pushes at
\* most one frame per rule.  The loop is modelled up to this stack size.
StackLimit == Len(GeneratedRules) * (MaxKeys + 1)

\* The marker rule of the fallback decomposition (not a repository rule).
UNMATCHED == 0

\* ------------------------------------------------------- string functions
\* str.lower on one character and on a string.
LowerChar(c) == IF c = UpperA THEN "a" ELSE IF c = UpperT THEN "t" ELSE c
lower(w) == [i \in 1..Len(w) |-> LowerChar(w[i])]

\* s[n:], with n a 0-based index.
Suffix(s, n) == IF n >= Len(s) THEN <<>> ELSE SubSeq(s, n + 1, Len(s))

\* Does pat occur in s at 0-based index i?
OccursAt(s, pat, i) ==
  /\ i >= 0
  /\ i + Len(pat) <= Len(s)
  /\ \A j \in 1..Len(pat) : s[i + j] = pat[j]

\* str.find: the first 0-based index of pat in s, -1 if there is none.
find(s, pat) ==
  IF \E i \in 0..Len(s) : OccursAt(s, pat, i)
    THEN CHOOSE i \in 0..Len(s) :
           /\ OccursAt(s, pat, i)
           /\ \A j \in 0..(i - 1) : ~OccursAt(s, pat, j)
    ELSE -1

\* Index (1-based) of the leftmost c in s, 0 if there is none.
IndexOf(s, c) ==
  IF \E i \in 1..Len(s) : s[i] = c
    THEN CHOOSE i \in 1..Len(s) : s[i] = c /\ \A j \in 1..(i - 1) : s[j] # c
    ELSE 0

\* Every c is removed, not only the leftmost one.
_remove_charAll(s, c) == SelectSeq(s, LAMBDA x : x # c)

\* utils._remove_char: s.replace(c, "", 1).
_remove_char(s, c) ==
  LET i == IndexOf(s, c)
  IN IF i = 0 THEN s ELSE SubSeq(s, 1, i - 1) \o SubSeq(s, i + 1, Len(s))

RECURSIVE Reduce_remove_char(_, _)
Reduce_remove_char(s, chars) ==
  IF chars = <<>> THEN s
  ELSE Reduce_remove_char(_remove_char(s, Head(chars)), Tail(chars))

\* The fast path is taken when the first characters agree.
str_withoutLoosePrefix(s, chars) ==
  IF s # <<>> /\ chars # <<>> /\ s[1] = chars[1]
    THEN Suffix(s, Len(chars))
    ELSE Reduce_remove_char(s, chars)

\* utils.str_without: the prefix is cut off, otherwise every character of
\* chars is removed one at a time from the left.
str_without(s, chars) ==
  IF SubSeq(s, 1, IF Len(chars) < Len(s) THEN Len(chars) ELSE Len(s)) = chars
    THEN Suffix(s, Len(chars))
    ELSE Reduce_remove_char(s, chars)

\* StenoKeys.without.
without(keys, other) == str_without(keys, other)

\* StenoKeys.cleanse_from_rtfcre: unrecognised tokens are dropped.
cleanse_from_rtfcre(raw) == SelectSeq(raw, LAMBDA c : c \in KeyAlphabet)

\* ------------------------------------------------------------ the matcher
Count(s, c) == Cardinality({i \in 1..Len(s) : s[i] = c})

\* Every key of the pattern is still unmatched.
KeysAvailable(pat, test_keys) ==
  \A c \in KeyAlphabet : Count(pat, c) <= Count(test_keys, c)

\* Matcher order: fewer keys first, then repository order.
RuleBefore(r, q) ==
  \/ Len(RuleUniverse[r].keys) < Len(RuleUniverse[q].keys)
  \/ Len(RuleUniverse[r].keys) = Len(RuleUniverse[q].keys) /\ r <= q

\* The rules of S in matcher order: the k-th one has k rules not after it.
SortRules(S) ==
  [k \in 1..Cardinality(S) |->
     CHOOSE r \in S : Cardinality({q \in S : RuleBefore(q, r)}) = k]

\* LexerRuleMatcher.match: the rules of the repository that can match next,
\* each with a letter pattern that occurs in the remaining word.
match(repo, test_keys, test_word, keys, word, rulemap) ==
  SortRules({r \in repo :
               /\ KeysAvailable(RuleUniverse[r].keys, test_keys)
               /\ find(test_word, RuleUniverse[r].letters) >= 0})

\* ------------------------------------------------------------- the search
VARIABLES
  rules,          \* the rule repository the matcher holds (set of rule ids)
  need_all_keys,  \* the lexer:need_all_keys option
  q_keys,         \* raw key string of the translation queried
  q_word,         \* word of the translation queried
  space_check,    \* TRUE: the search rejects candidates on space_left
  pc,             \* "idle" | "search"
  stack,          \* the stack of _generate_maps, top at the end
  best_letters,   \* best_letters of _generate_maps
  results,        \* the LexerResults gathered, in the order yielded
  output,         \* what the last query returned
  answers,        \* one record for every query that has returned
  match_calls,    \* calls of the matcher made by the search in progress
  popped,         \* the rules of the rule map of every frame popped by the
                  \* search in progress, in the order popped
  op,             \* the operation begun last: "none" | "query" | "product"
  keys_iter,      \* query_product: the key strings given
  words_iter,     \* query_product: the words given
  pairs,          \* query_product: list(product(keys, words))
  pair_ix,        \* query_product: index in pairs of the pair being searched
  pool,           \* query_product: the results of the pairs searched so far
  searched,       \* query_product: the pairs searched so far, each with the
                  \* number of results its search gathered
  raised,         \* the exception the operation raised, or "none"
  translations,   \* _translations: the translations loaded last
  items_arg,      \* query_all: the items argument (NoItems for None)
  items,          \* query_all: the items after the default is taken
  filter_in,      \* query_all: the name of the filter_in predicate given
  filter_out,     \* query_all: the name of the filter_out predicate given
  work,           \* query_all: the state of the query of every item handed
                  \* to parallel_starmap, by index in items
  bulk_out,       \* what query_all returned
  wo_self,        \* without: the key string it is called on
  wo_other,       \* without: the keys to remove
  wo_perm,        \* without: the same keys in another order
  wo_result,      \* without: what wo_self.without(wo_other) returned
  wo_result2,     \* without: what wo_self.without(wo_perm) returned
  rule,           \* test_rules: the rule of the repository under test
  main_verdict,   \* test_rules of test_main.py: "none" | "passed" | "AssertionError"
  all_verdict,    \* test_rules of test_all.py: "none" | "passed" | "AssertionError"
  pl_d,           \* PloverStenoDictCollection: the dict d given
  pl_split_count, \* PloverStenoDictCollection: split_count
  pl_dicts,       \* PloverStenoDictCollection.dicts, each the _dict of a
                  \* PloverStenoDict
  window,         \* PloverDialog.window: None or the window saved
  apps_created,   \* Applications created by PloverDialog.__new__
  apps_started,   \* Applications started by PloverDialog.__new__
  constructed,    \* what every PloverDialog(...) call returned, in order
  h_lines,        \* HistoryTracker._lines
  h_pointer,      \* HistoryTracker._pointer
  h_last,         \* HistoryTracker: the call made last, with the call
                  \* before it, its argument, the index it read at and
                  \* what it returned
  vs_attrs,       \* ViewState: the value of every attribute (the instance
                  \* dict over the class attributes)
  vs_modified,    \* ViewState._modified
  vs_assigned,    \* ViewState: the assignments made through __setattr__
                  \* since the last get_modified, each a name and a value,
                  \* in order
  vs_last,        \* ViewState: the method called last, what it returned,
                  \* the engine calls it made and the state it began in
  vs_ops,         \* ViewState: the number of calls of update and of
                  \* action methods so far
  sx_s,           \* str_suffix: the string s
  sx_sep,         \* str_suffix: the separator sep
  sx_result       \* str_suffix: what it returned, <<>> before the call

\* The state of query_product.
product_vars == <<keys_iter, words_iter, pairs, pair_ix, pool, searched, raised>>

\* The state of query_all.
bulk_vars == <<translations, items_arg, items, filter_in, filter_out, work,
               bulk_out>>

\* The state of the calls of StenoKeys.without.
keys_vars == <<wo_self, wo_other, wo_perm, wo_result, wo_result2>>

\* The state of the integrity tests of the rules.
tests_vars == <<rule, main_verdict, all_verdict>>

\* The state of the Plover dictionary conversion.
plover_vars == <<pl_d, pl_split_count, pl_dicts>>

\* The state of the Plover plugin dialog.
dialog_vars == <<window, apps_created, apps_started, constructed>>

\* The state of the history of the console.
console_vars == <<h_lines, h_pointer, h_last>>

\* The state of the view state of the GUI.
view_vars == <<vs_attrs, vs_modified, vs_assigned, vs_last, vs_ops>>

\* The state of the call of str_suffix.
suffix_vars == <<sx_s, sx_sep, sx_result>>

\* The state of the user interface and of the string utilities.
gui_vars == <<console_vars, view_vars, suffix_vars>>

\* The state outside the lexer.
other_vars == <<keys_vars, tests_vars, plover_vars, dialog_vars, gui_vars>>

\* The state of the lexer.
lexer_vars == <<rules, need_all_keys, q_keys, q_word, space_check, pc, stack,
                best_letters, results, output, answers, match_calls, popped,
                op, product_vars, bulk_vars>>

\* The lexer has been constructed with no rules and has done nothing.
LexerIdle ==
  /\ rules = {}
  /\ need_all_keys = FALSE
  /\ q_keys = <<>>
  /\ q_word = <<>>
  /\ space_check = TRUE
  /\ pc = "idle"
  /\ stack = <<>>
  /\ best_letters = 0
  /\ results = <<>>
  /\ output = [rulemap |-> <<>>, keys |-> <<>>, letters |-> <<>>,
               complete |-> FALSE]
  /\ answers = <<>>
  /\ match_calls = 0
  /\ popped = <<>>
  /\ op = "none"
  /\ keys_iter = <<>>
  /\ words_iter = <<>>
  /\ pairs = <<>>
  /\ pair_ix = 0
  /\ pool = <<>>
  /\ searched = <<>>
  /\ raised = "none"
  /\ translations = <<>>
  /\ items_arg = [given |-> FALSE, list |-> <<>>]
  /\ items = <<>>
  /\ filter_in = "None"
  /\ filter_out = "None"
  /\ work = <<>>
  /\ bulk_out = <<>>

vars == <<lexer_vars, other_vars>>

\* The None of Python.
None == "None"

\* No call of without has been made.
NoKeys ==
  /\ wo_self = <<>>
  /\ wo_other = <<>>
  /\ wo_perm = <<>>
  /\ wo_result = <<>>
  /\ wo_result2 = <<>>

\* No rule is under test.
NoTests ==
  /\ rule = None
  /\ main_verdict = "none"
  /\ all_verdict = "none"

\* No Plover dictionary has been converted.
NoPlover ==
  /\ pl_d = <<>>
  /\ pl_split_count = 1
  /\ pl_dicts = <<>>

\* The value of PloverDialog.window that stands for None; the window of the
\* n-th Application created is n.
NoWindow == 0

\* PloverDialog has not been constructed.
NoDialog ==
  /\ window = NoWindow
  /\ apps_created = 0
  /\ apps_started = 0
  /\ constructed = <<>>

\* No HistoryTracker has been constructed.
NoConsole ==
  /\ h_lines = <<>>
  /\ h_pointer = 0
  /\ h_last = [op |-> "none"]

\* No ViewState has been constructed.
NoView ==
  /\ vs_attrs = <<>>
  /\ vs_modified = <<>>
  /\ vs_assigned = <<>>
  /\ vs_last = [op |-> "none"]
  /\ vs_ops = 0

\* str_suffix has not been called.
NoSuffix ==
  /\ sx_s = <<>>
  /\ sx_sep = <<>>
  /\ sx_result = <<>>

\* Nothing has happened in the user interface or the string utilities.
NoGui == NoConsole /\ NoView /\ NoSuffix

\* Nothing has happened outside the lexer.
NoOther == NoKeys /\ NoTests /\ NoPlover /\ NoDialog /\ NoGui

\* The items argument of query_all: None, or a list of pairs.
NoItems == [given |-> FALSE, list |-> <<>>]
ItemList(its) == [given |-> TRUE, list |-> its]

\* No translations are loaded and no bulk query has been made.
NoBulk ==
  /\ translations = <<>>
  /\ items_arg = NoItems
  /\ items = <<>>
  /\ filter_in = None
  /\ filter_out = None
  /\ work = <<>>
  /\ bulk_out = <<>>

\* RuleMapItem(rule, start, length).
RuleMapItem(r, start, length) == [rule |-> r, start |-> start, length |-> length]

\* A search frame: (test_keys, test_word, wordptr, lc, rulemap).
Frame(test_keys, test_word, wordptr, lc, rulemap) ==
  [test_keys |-> test_keys, test_word |-> test_word, wordptr |-> wordptr,
   lc |-> lc, rulemap |-> rulemap]

\* The rules of a rule map, in order.
Path(rulemap) == [k \in 1..Len(rulemap) |-> rulemap[k].rule]

\* stack = [(keys, word.lower(), 0, 0, [])]
InitialFrame(keys, word) == Frame(keys, lower(word), 0, 0, <<>>)

\* Yield condition that ignores need_all_keys.
YieldsAlways(f, nak) == f.rulemap # <<>>

\* Yield condition with the two tests joined by "and".
YieldsBothTests(f, nak) ==
  /\ f.rulemap # <<>>
  /\ (f.test_keys = <<>> /\ ~nak)

\* The condition under which a popped frame is yielded.
Yields(f, nak) ==
  /\ f.rulemap # <<>>
  /\ (f.test_keys = <<>> \/ ~nak)

\* LexerResult(rulemap, test_keys, keys, word).
LexerResult(rulemap, test_keys, keys, word) ==
  [rulemap |-> rulemap, unmatched |-> test_keys, keys |-> keys, word |-> word]

\* space_left with the parentheses dropped.
SpaceLeftNoParens(f, best) == Len(f.test_word) - best - f.lc

\* space_left = len(test_word) - (best_letters - lc)
SpaceLeft(f, best) == Len(f.test_word) - (best - f.lc)

\* The frame popped is pushed back instead of the new one.
PushedFrameSame(f, r, i) == f

\* Pushed frame whose word pointer does not count the skipped letters.
PushedFrameNoSkip(f, r, i) ==
  LET word_len == Len(RuleUniverse[r].letters)
      new_map  == f.rulemap \o <<RuleMapItem(r, f.wordptr + i, word_len)>>
      word_inc == word_len + i
  IN Frame(without(f.test_keys, RuleUniverse[r].keys),
           Suffix(f.test_word, word_inc),
           f.wordptr + word_len, f.lc + word_len, new_map)

\* Pushed frame whose item is placed after the matched letters.
PushedFrameLate(f, r, i) ==
  LET word_len == Len(RuleUniverse[r].letters)
      word_inc == word_len + i
      new_map  == f.rulemap \o <<RuleMapItem(r, f.wordptr + word_inc, word_len)>>
  IN Frame(without(f.test_keys, RuleUniverse[r].keys),
           Suffix(f.test_word, word_inc),
           f.wordptr + word_inc, f.lc + word_len, new_map)

\* Pushed frame whose letter count takes in the skipped letters.
PushedFrameCountsSkipped(f, r, i) ==
  LET word_len == Len(RuleUniverse[r].letters)
      new_map  == f.rulemap \o <<RuleMapItem(r, f.wordptr + i, word_len)>>
      word_inc == word_len + i
  IN Frame(without(f.test_keys, RuleUniverse[r].keys),
           Suffix(f.test_word, word_inc),
           f.wordptr + word_inc, f.lc + word_inc, new_map)

\* Pushed frame that cuts as many keys as the rule has off the front.
PushedFrameCutsKeys(f, r, i) ==
  LET word_len == Len(RuleUniverse[r].letters)
      new_map  == f.rulemap \o <<RuleMapItem(r, f.wordptr + i, word_len)>>
      word_inc == word_len + i
  IN Frame(Suffix(f.test_keys, Len(RuleUniverse[r].keys)),
           Suffix(f.test_word, word_inc),
           f.wordptr + word_inc, f.lc + word_len, new_map)

\* Pushed frame whose word pointer moves to the start of the match only.
PushedFrameNoAdvance(f, r, i) ==
  LET word_len == Len(RuleUniverse[r].letters)
      new_map  == f.rulemap \o <<RuleMapItem(r, f.wordptr + i, word_len)>>
      word_inc == word_len + i
  IN Frame(without(f.test_keys, RuleUniverse[r].keys),
           Suffix(f.test_word, i),
           f.wordptr + i, f.lc + word_len, new_map)

\* The frame pushed for rule r found at index i of frame f.
PushedFrame(f, r, i) ==
  LET word_len == Len(RuleUniverse[r].letters)
      new_map  == f.rulemap \o <<RuleMapItem(r, f.wordptr + i, word_len)>>
      word_inc == word_len + i
  IN Frame(without(f.test_keys, RuleUniverse[r].keys),
           Suffix(f.test_word, word_inc),
           f.wordptr + word_inc, f.lc + word_len, new_map)

\* A candidate found just at space_left is filtered out too.
RejectedAtLimit(f, r, space_left, check) ==
  check /\ space_left <= find(f.test_word, RuleUniverse[r].letters)

\* Is candidate r of frame f filtered out?
Rejected(f, r, space_left, check) ==
  check /\ space_left < find(f.test_word, RuleUniverse[r].letters)

\* The candidates are pushed in reverse matcher order.
PushCandidatesReversed(stk, f, cands, space_left, check) ==
  LET kept == SelectSeq(cands, LAMBDA r : ~Rejected(f, r, space_left, check))
  IN stk \o [k \in 1..Len(kept) |->
               PushedFrame(f, kept[Len(kept) + 1 - k],
                           find(f.test_word, RuleUniverse[kept[Len(kept) + 1 - k]].letters))]

\* The for loop over the candidates of frame f: the stack after it.  The
\* candidates that are not filtered out are pushed in matcher order.
PushCandidates(stk, f, cands, space_left, check) ==
  LET kept == SelectSeq(cands, LAMBDA r : ~Rejected(f, r, space_left, check))
  IN stk \o [k \in 1..Len(kept) |->
               PushedFrame(f, kept[k], find(f.test_word, RuleUniverse[kept[k]].letters))]

\* Every popped frame is expanded, also one with no keys left.
ExpandsAlways(f) == TRUE

\* A popped frame with keys left is expanded: the matcher is asked for its
\* candidates.  A frame with no keys left is not ("continue").
Expands(f) == f.test_keys # <<>>

\* best_letters is set to the letter count of the frame.
NewBestLast(best, f) == f.lc

\* best_letters = max(best_letters, lc)
NewBest(best, f) == IF best > f.lc THEN best ELSE f.lc

\* The frame taken is the oldest one on the stack.
TopOldest(stk) == stk[1]

\* stack.pop()
Top(stk) == stk[Len(stk)]
Pop(stk) == SubSeq(stk, 1, Len(stk) - 1)

\* ------------------------------------------------------------ the ranking
RECURSIVE SumLengths(_)
SumLengths(rulemap) ==
  IF rulemap = <<>> THEN 0 ELSE Head(rulemap).length + SumLengths(Tail(rulemap))

\* a outranks b: no unmatched keys first, then more letters matched, then
\* fewer rule map items.
Outranks(a, b) ==
  LET ca == (a.unmatched = <<>>)
      cb == (b.unmatched = <<>>)
      la == SumLengths(a.rulemap)
      lb == SumLengths(b.rulemap)
  IN \/ ca /\ ~cb
     \/ ca = cb /\ la > lb
     \/ ca = cb /\ la = lb /\ Len(a.rulemap) < Len(b.rulemap)

\* Index of the best result: the first one no other result outranks.
BestIndex(rs) ==
  CHOOSE i \in 1..Len(rs) :
    /\ \A j \in 1..Len(rs) : ~Outranks(rs[j], rs[i])
    /\ \A j \in 1..(i - 1) : Outranks(rs[i], rs[j])

\* The decomposition returned when nothing was found: one item for the
\* whole word, under the marker rule.
Fallback(keys, word) ==
  [rulemap  |-> <<RuleMapItem(UNMATCHED, 0, Len(word))>>,
   keys     |-> keys,
   letters  |-> word,
   complete |-> FALSE]

\* LexerResult.best_rule(results, default).
best_rule(rs, default) ==
  IF rs = <<>> THEN Fallback(default[1], default[2])
  ELSE LET b == rs[BestIndex(rs)]
       IN [rulemap  |-> b.rulemap,
           keys     |-> b.keys,
           letters  |-> b.word,
           complete |-> (b.unmatched = <<>>)]

\* Reverse of a sequence.
Reverse(s) == [i \in 1..Len(s) |-> s[Len(s) + 1 - i]]

\* query returning the first result gathered instead of the best one.
query_returnFirst(rs, keys, word) ==
  best_rule(IF rs = <<>> THEN rs ELSE <<rs[1]>>, <<keys, word>>)

\* query ranking the results in reverse order.
query_returnReversed(rs, keys, word) == best_rule(Reverse(rs), <<keys, word>>)

\* query passing the cleansed keys and the lowered word as the default.
query_returnCleansed(rs, keys, word) ==
  best_rule(rs, <<cleanse_from_rtfcre(keys), lower(word)>>)

\* query: best_rule(results, default=(keys, word)).
query_return(rs, keys, word) == best_rule(rs, <<keys, word>>)

NoOutput == [rulemap |-> <<>>, keys |-> <<>>, letters |-> <<>>, complete |-> FALSE]

\* ---------------------------------------------------------------- actions
\* Results gathered from a generator that is kept from the first query on
\* and is exhausted afterwards.
GatheredOnce(rs, f, keys, word, nak) ==
  IF Yields(f, nak) /\ answers = <<>>
    THEN Append(rs, LexerResult(f.rulemap, f.test_keys, keys, word))
    ELSE rs

\* _gather_results: the list of results after frame f has been popped.
Gathered(rs, f, keys, word, nak) ==
  IF Yields(f, nak)
    THEN Append(rs, LexerResult(f.rulemap, f.test_keys, keys, word))
    ELSE rs

Init ==
  /\ rules \in SUBSET RuleIds
  /\ need_all_keys \in BOOLEAN
  /\ q_keys \in RawStrokes
  /\ q_word \in Words
  /\ space_check = TRUE
  /\ pc = "idle"
  /\ stack = <<>>
  /\ best_letters = 0
  /\ results = <<>>
  /\ output = NoOutput
  /\ answers = <<>>
  /\ match_calls = 0
  /\ popped = <<>>
  /\ op = "none"
  /\ keys_iter = <<>>
  /\ words_iter = <<>>
  /\ pairs = <<>>
  /\ pair_ix = 0
  /\ pool = <<>>
  /\ searched = <<>>
  /\ raised = "none"
  /\ NoBulk
  /\ NoOther

\* query -> _gather_results -> _generate_maps up to the while loop.
\* check = TRUE is the program; check = FALSE is the exhaustive search.
lexer_query(check) ==
  /\ pc = "idle"
  /\ Len(answers) < MaxQueries
  /\ space_check' = check
  /\ stack' = <<InitialFrame(cleanse_from_rtfcre(q_keys), q_word)>>
  /\ best_letters' = 0
  /\ results' = <<>>
  /\ pc' = "search"
  /\ match_calls' = 0
  /\ popped' = <<>>
  /\ op' = "query"
  /\ UNCHANGED <<rules, need_all_keys, q_keys, q_word, output, answers,
                 product_vars,
                 bulk_vars,
                 other_vars>>

\* One pass of the while loop of _generate_maps: f is the frame popped and
\* cands the rules the matcher returns for it.
Step ==
  /\ pc = "search"
  /\ stack # <<>>
  /\ Len(stack) < StackLimit
  /\ \E f \in {Top(stack)} :
     \E keys \in {cleanse_from_rtfcre(q_keys)} :
     \E cands \in {match(rules, f.test_keys, f.test_word, keys, q_word, f.rulemap)} :
       /\ results' = Gathered(results, f, keys, q_word, need_all_keys)
       /\ popped' = Append(popped, Path(f.rulemap))
       /\ IF ~Expands(f)
            THEN /\ best_letters' = NewBest(best_letters, f)
                 /\ stack' = Pop(stack)
                 /\ match_calls' = match_calls
            ELSE /\ best_letters' = best_letters
                 /\ stack' = PushCandidates(Pop(stack), f, cands,
                                            SpaceLeft(f, best_letters), space_check)
                 /\ match_calls' = match_calls + 1
  /\ UNCHANGED <<rules, need_all_keys, q_keys, q_word, space_check, pc,
                 output, answers, op, product_vars,
                 bulk_vars,
                 other_vars>>

\* The loop ends; query returns best_rule(results, default=(keys, word)).
Return ==
  /\ pc = "search"
  /\ op = "query"
  /\ stack = <<>>
  /\ output' = query_return(results, q_keys, q_word)
  /\ answers' = Append(answers, [check |-> space_check,
                                 need_all_keys |-> need_all_keys,
                                 found |-> Len(results),
                                 result |-> output'])
  /\ pc' = "idle"
  /\ UNCHANGED <<rules, need_all_keys, q_keys, q_word, space_check, stack,
                 best_letters, results, match_calls, popped, op, product_vars,
                 bulk_vars,
                 other_vars>>

Next ==
  \/ \E check \in BOOLEAN : lexer_query(check)
  \/ Step
  \/ Return

Spec == Init /\ [][Next]_vars

\* The queries of the program alone, on the whole rule universe, where the
\* search branches most.  The search loop neither blocks nor suspends: a
\* query that has started keeps taking steps and then returns.
LiveInit == Init /\ rules = RuleIds

LiveNext ==
  \/ lexer_query(TRUE)
  \/ Step
  \/ Return

LiveSpec == LiveInit /\ [][LiveNext]_vars /\ WF_vars(Step) /\ WF_vars(Return)

\* The same queries with no fairness assumed.
ProgramSpec == LiveInit /\ [][LiveNext]_vars

\* ------------------------------------------------- the example TEFT -> test
ExampleKeys == <<"T", "E", "F", "T">>
ExampleWord == <<"t", "e", "s", "t">>

\* The example query and its variants: the repository with and without F->s,
\* the word with and without a capital, the key string with and without an
\* unrecognised token.
ExampleInit ==
  /\ rules \in {ExampleIds, ExampleIds \cup {RuleFs}}
  /\ need_all_keys = FALSE
  /\ q_keys \in {ExampleKeys, <<JunkToken>> \o ExampleKeys}
  /\ q_word \in {ExampleWord, <<UpperT>> \o Tail(ExampleWord)}
  /\ space_check = TRUE
  /\ pc = "idle"
  /\ stack = <<>>
  /\ best_letters = 0
  /\ results = <<>>
  /\ output = NoOutput
  /\ answers = <<>>
  /\ match_calls = 0
  /\ popped = <<>>
  /\ op = "none"
  /\ keys_iter = <<>>
  /\ words_iter = <<>>
  /\ pairs = <<>>
  /\ pair_ix = 0
  /\ pool = <<>>
  /\ searched = <<>>
  /\ raised = "none"
  /\ NoBulk
  /\ NoOther

ExampleSpec == ExampleInit /\ [][Next]_vars

\* ----------------------------------------------------------- query_product
\* The key strings and the words a product query is given, and the
\* repositories it is run on.
ProductStrokes == {<<"S", "T">>, <<"T">>, <<JunkToken>>}
ProductWords == {<<"a", "b">>, <<UpperA>>}
ProductRepos == {RuleIds, {2, 3}, {1, 4}}

\* list(product(keys, words)): every key string with every word, the words
\* varying fastest.
product(ks, ws) ==
  [n \in 1..(Len(ks) * Len(ws)) |->
     <<ks[((n - 1) \div Len(ws)) + 1], ws[((n - 1) % Len(ws)) + 1]>>]

\* The results of a pair replace those of the pairs before it.
PooledLast(rs_pool, rs) == rs

\* The list comprehension of query_product: the results of every pair, in
\* the order of the pairs.
Pooled(rs_pool, rs) == rs_pool \o rs

ProductInit ==
  /\ rules \in ProductRepos
  /\ need_all_keys \in BOOLEAN
  /\ q_keys = <<>>
  /\ q_word = <<>>
  /\ space_check = TRUE
  /\ pc = "idle"
  /\ stack = <<>>
  /\ best_letters = 0
  /\ results = <<>>
  /\ output = NoOutput
  /\ answers = <<>>
  /\ match_calls = 0
  /\ popped = <<>>
  /\ op = "none"
  /\ keys_iter = <<>>
  /\ words_iter = <<>>
  /\ pairs = <<>>
  /\ pair_ix = 0
  /\ pool = <<>>
  /\ searched = <<>>
  /\ raised = "none"
  /\ NoBulk
  /\ NoOther

\* query_product is called: pairs = list(product(keys, words)).
query_product(ks, ws) ==
  /\ pc = "idle"
  /\ op = "none"
  /\ op' = "product"
  /\ keys_iter' = ks
  /\ words_iter' = ws
  /\ pairs' = product(ks, ws)
  /\ pair_ix' = 0
  /\ pool' = <<>>
  /\ searched' = <<>>
  /\ pc' = "product"
  /\ UNCHANGED <<rules, need_all_keys, q_keys, q_word, space_check, stack,
                 best_letters, results, output, answers, match_calls, popped,
                 raised,
                 bulk_vars,
                 other_vars>>

\* The comprehension takes the next pair: _gather_results(keys, word) up to
\* the while loop of _generate_maps.
NextPair ==
  /\ pc = "product"
  /\ pair_ix < Len(pairs)
  /\ pair_ix' = pair_ix + 1
  /\ q_keys' = pairs[pair_ix + 1][1]
  /\ q_word' = pairs[pair_ix + 1][2]
  /\ stack' = <<InitialFrame(cleanse_from_rtfcre(pairs[pair_ix + 1][1]),
                             pairs[pair_ix + 1][2])>>
  /\ best_letters' = 0
  /\ results' = <<>>
  /\ match_calls' = 0
  /\ popped' = <<>>
  /\ pc' = "search"
  /\ UNCHANGED <<rules, need_all_keys, space_check, output, answers, op,
                 keys_iter, words_iter, pairs, pool, searched, raised,
                 bulk_vars,
                 other_vars>>

\* The search of a pair ends: its results join those of the pairs before.
PairDone ==
  /\ pc = "search"
  /\ op = "product"
  /\ stack = <<>>
  /\ pool' = Pooled(pool, results)
  /\ searched' = Append(searched, [keys |-> q_keys, word |-> q_word,
                                   found |-> Len(results)])
  /\ pc' = "product"
  /\ UNCHANGED <<rules, need_all_keys, q_keys, q_word, space_check, stack,
                 best_letters, results, output, answers, match_calls, popped,
                 op, keys_iter, words_iter, pairs, pair_ix, raised,
                 bulk_vars,
                 other_vars>>

\* return LexerResult.best_rule(results, default=pairs[0]): pairs[0] raises
\* IndexError when there is no pair.
ProductReturn ==
  /\ pc = "product"
  /\ pair_ix = Len(pairs)
  /\ IF pairs = <<>>
       THEN /\ raised' = "IndexError"
            /\ pc' = "error"
            /\ output' = output
       ELSE /\ raised' = raised
            /\ pc' = "idle"
            /\ output' = best_rule(pool, pairs[1])
  /\ UNCHANGED <<rules, need_all_keys, q_keys, q_word, space_check, stack,
                 best_letters, results, answers, match_calls, popped, op,
                 keys_iter, words_iter, pairs, pair_ix, pool, searched,
                 bulk_vars,
                 other_vars>>

ProductNext ==
  \/ \E ks \in SeqsUpTo(ProductStrokes, MaxIter) :
       \E ws \in SeqsUpTo(ProductWords, MaxIter) : query_product(ks, ws)
  \/ NextPair
  \/ Step
  \/ PairDone
  \/ ProductReturn

ProductSpec == ProductInit /\ [][ProductNext]_vars

\* ----------------------------------------------------------- definitions
\* used by the properties

\* The frame a query starts from.
Root == InitialFrame(cleanse_from_rtfcre(q_keys), q_word)

\* Is a frame with a non-empty rule map and no keys left reachable from f
\* by matching rules, whatever the order and with nothing filtered out?
RECURSIVE HasComplete(_)
HasComplete(f) ==
  \/ f.test_keys = <<>> /\ f.rulemap # <<>>
  \/ \E r \in rules :
       /\ KeysAvailable(RuleUniverse[r].keys, f.test_keys)
       /\ find(f.test_word, RuleUniverse[r].letters) >= 0
       /\ HasComplete(PushedFrame(f, r, find(f.test_word, RuleUniverse[r].letters)))

\* The stack stays below the size up to which the loop is modelled.
StackBelowLimit == Len(stack) < StackLimit

IsFallback(d) == Len(d.rulemap) = 1 /\ d.rulemap[1].rule = UNMATCHED

\* A query has returned and nothing has been started since.
Returned == pc = "idle" /\ answers # <<>>

\* The rule maps the search has yielded so far.
YieldedMaps == {results[i].rulemap : i \in 1..Len(results)}

\* ---------------------------------------------------------------- query_all
\* The translation pairs a bulk query is given: one with a decomposition
\* that matches every key, one whose only decomposition skips a letter, one
\* with a capital and no decomposition of every key, and one whose key
\* string has no recognised token.
BulkPairs ==
  { << <<"S", "T">>, <<"a", "b">> >>,
    << <<"T">>,      <<"a", "b">> >>,
    << <<"S", "T">>, <<UpperA>> >>,
    << <<JunkToken>>, <<"a">> >> }

\* The translations loaded before the bulk query.
LoadedTranslations == {<<>>, << << <<"S">>, <<"a">> >> >>}

\* The repositories a bulk query is run on.
BulkRepos == {RuleIds, {2, 3}}

\* The filter_in predicates given: None, or "the word is in lower case".
FilterIns == {None, "islower"}
\* The filter_out predicates given: None, or "the result has a rule".
FilterOuts == {None, "found"}

\* filter(filter_in, items) on one item: None keeps the items that are true,
\* and a (keys, word) tuple is.
PassesIn(fin, item) ==
  IF fin = None THEN TRUE ELSE item[2] = lower(item[2])

\* filter(filter_out, results) on one result: None keeps the results that
\* are true, and a rule is.
PassesOut(fout, d) ==
  IF fout = None THEN TRUE ELSE ~(Len(d.rulemap) = 1 /\ d.rulemap[1].rule = UNMATCHED)

\* The translations are used also when the items given are empty.
ItemsOrDefaultIfEmpty(arg, tr) ==
  IF ~arg.given \/ arg.list = <<>> THEN tr ELSE arg.list

\* if items is None: items = self._translations.items()
ItemsOrDefault(arg, tr) == IF ~arg.given THEN tr ELSE arg.list

\* need_all_keys is left as it was.
NeedAllKeysKept(nak) == nak

\* self.need_all_keys = True
NeedAllKeysForced(nak) == TRUE

\* filter(filter_in, items): the indexes of the items handed to the queries.
Accepted(fin, its) == {i \in 1..Len(its) : PassesIn(fin, its[i])}

\* The results are returned unfiltered.
KeptAll(fout, ds) == ds

\* list(filter(filter_out, results))
Kept(fout, ds) == SelectSeq(ds, LAMBDA d : PassesOut(fout, d))

\* The elements of a set of indexes in increasing order.
Ascending(S) ==
  [k \in 1..Cardinality(S) |->
     CHOOSE i \in S : Cardinality({j \in S : j <= i}) = k]

\* The query of one item before it has begun.
Waiting(item) ==
  [pc |-> "waiting", keys |-> item[1], word |-> item[2], stack |-> <<>>,
   best_letters |-> 0, results |-> <<>>, out |-> NoOutput]

\* best_letters is one value that all the queries read and write.
BestShared(wk, i) ==
  CHOOSE b \in {wk[j].best_letters : j \in DOMAIN wk} :
    \A j \in DOMAIN wk : wk[j].best_letters <= b

\* best_letters is a local of _generate_maps: the value query i reads is
\* the one it wrote.
BestOwn(wk, i) == wk[i].best_letters

BulkInit ==
  /\ rules \in BulkRepos
  /\ need_all_keys \in BOOLEAN
  /\ q_keys = <<>>
  /\ q_word = <<>>
  /\ space_check = TRUE
  /\ pc = "idle"
  /\ stack = <<>>
  /\ best_letters = 0
  /\ results = <<>>
  /\ output = NoOutput
  /\ answers = <<>>
  /\ match_calls = 0
  /\ popped = <<>>
  /\ op = "none"
  /\ keys_iter = <<>>
  /\ words_iter = <<>>
  /\ pairs = <<>>
  /\ pair_ix = 0
  /\ pool = <<>>
  /\ searched = <<>>
  /\ raised = "none"
  /\ translations \in LoadedTranslations
  /\ items_arg = NoItems
  /\ items = <<>>
  /\ filter_in = None
  /\ filter_out = None
  /\ work = <<>>
  /\ bulk_out = <<>>
  /\ NoOther

\* query_all is called, up to the call of parallel_starmap: the default of
\* items is taken, need_all_keys is set, and the items that pass filter_in
\* are handed to the queries.
query_all(arg, fin, fout) ==
  /\ pc = "idle"
  /\ op \in {"none", "query"}
  /\ bulk_out = <<>>
  /\ op' = "all"
  /\ items_arg' = arg
  /\ filter_in' = fin
  /\ filter_out' = fout
  /\ items' = ItemsOrDefault(arg, translations)
  /\ need_all_keys' = NeedAllKeysForced(need_all_keys)
  /\ work' = [i \in Accepted(fin, items') |-> Waiting(items'[i])]
  /\ pc' = "bulk"
  /\ UNCHANGED <<rules, q_keys, q_word, space_check, stack, best_letters,
                 results, output, answers, match_calls, popped, product_vars,
                 translations, bulk_out,
                 other_vars>>

\* The query of item i begins: _gather_results up to the while loop of
\* _generate_maps.
WorkerStart(i) ==
  /\ pc = "bulk"
  /\ work[i].pc = "waiting"
  /\ work' = [work EXCEPT ![i] =
       [work[i] EXCEPT
          !.pc = "search",
          !.stack = <<InitialFrame(cleanse_from_rtfcre(work[i].keys),
                                   work[i].word)>>]]
  /\ UNCHANGED <<rules, need_all_keys, q_keys, q_word, space_check, pc, stack,
                 best_letters, results, output, answers, match_calls, popped,
                 op, product_vars, translations, items_arg, items, filter_in,
                 filter_out, bulk_out,
                 other_vars>>

\* One pass of the while loop of _generate_maps in the query of item i.
WorkerStep(i) ==
  /\ pc = "bulk"
  /\ work[i].pc = "search"
  /\ work[i].stack # <<>>
  /\ Len(work[i].stack) < StackLimit
  /\ \E w \in {work[i]} :
     \E f \in {Top(w.stack)} :
     \E keys \in {cleanse_from_rtfcre(w.keys)} :
     \E best \in {BestOwn(work, i)} :
     \E cands \in {match(rules, f.test_keys, f.test_word, keys, w.word, f.rulemap)} :
       work' = [work EXCEPT ![i] =
         [w EXCEPT
            !.results = Gathered(w.results, f, keys, w.word, need_all_keys),
            !.best_letters = IF ~Expands(f) /\ f.lc > best THEN f.lc ELSE best,
            !.stack = IF ~Expands(f)
                        THEN Pop(w.stack)
                        ELSE PushCandidates(Pop(w.stack), f, cands,
                                            SpaceLeft(f, best), TRUE)]]
  /\ UNCHANGED <<rules, need_all_keys, q_keys, q_word, space_check, pc, stack,
                 best_letters, results, output, answers, match_calls, popped,
                 op, product_vars, translations, items_arg, items, filter_in,
                 filter_out, bulk_out,
                 other_vars>>

\* The query of item i returns best_rule(results, default=(keys, word)).
WorkerReturn(i) ==
  /\ pc = "bulk"
  /\ work[i].pc = "search"
  /\ work[i].stack = <<>>
  /\ work' = [work EXCEPT ![i] =
       [work[i] EXCEPT
          !.pc = "done",
          !.out = query_return(work[i].results, work[i].keys, work[i].word)]]
  /\ UNCHANGED <<rules, need_all_keys, q_keys, q_word, space_check, pc, stack,
                 best_letters, results, output, answers, match_calls, popped,
                 op, product_vars, translations, items_arg, items, filter_in,
                 filter_out, bulk_out,
                 other_vars>>

\* parallel_starmap returns the results of the queries in the order of the
\* items; query_all returns those that pass filter_out.
BulkReturn ==
  /\ pc = "bulk"
  /\ \A i \in DOMAIN work : work[i].pc = "done"
  /\ bulk_out' = Kept(filter_out,
                      [k \in 1..Cardinality(DOMAIN work) |->
                         work[Ascending(DOMAIN work)[k]].out])
  /\ pc' = "idle"
  /\ UNCHANGED <<rules, need_all_keys, q_keys, q_word, space_check, stack,
                 best_letters, results, output, answers, match_calls, popped,
                 op, product_vars, translations, items_arg, items, filter_in,
                 filter_out, work,
                 other_vars>>

BulkNext ==
  \/ \E arg \in {NoItems} \cup {ItemList(l) : l \in SeqsUpTo(BulkPairs, MaxItems)} :
       \E fin \in FilterIns : \E fout \in FilterOuts : query_all(arg, fin, fout)
  \/ \E i \in DOMAIN work : WorkerStart(i)
  \/ \E i \in DOMAIN work : WorkerStep(i)
  \/ \E i \in DOMAIN work : WorkerReturn(i)
  \/ BulkReturn

BulkSpec == BulkInit /\ [][BulkNext]_vars

\* ------------------------------------------- a query around a bulk query
\* One lexer on which a translation is queried, then a bulk query is run,
\* then the same translation is queried again.
OptionInit ==
  /\ rules \in BulkRepos
  /\ need_all_keys \in BOOLEAN
  /\ \E item \in BulkPairs : q_keys = item[1] /\ q_word = item[2]
  /\ space_check = TRUE
  /\ pc = "idle"
  /\ stack = <<>>
  /\ best_letters = 0
  /\ results = <<>>
  /\ output = NoOutput
  /\ answers = <<>>
  /\ match_calls = 0
  /\ popped = <<>>
  /\ op = "none"
  /\ keys_iter = <<>>
  /\ words_iter = <<>>
  /\ pairs = <<>>
  /\ pair_ix = 0
  /\ pool = <<>>
  /\ searched = <<>>
  /\ raised = "none"
  /\ translations \in LoadedTranslations
  /\ items_arg = NoItems
  /\ items = <<>>
  /\ filter_in = None
  /\ filter_out = None
  /\ work = <<>>
  /\ bulk_out = <<>>
  /\ NoOther

OptionNext ==
  \/ lexer_query(TRUE)
  \/ Step
  \/ Return
  \/ \E arg \in {NoItems} \cup {ItemList(l) : l \in SeqsUpTo(BulkPairs, 1)} :
       /\ answers # <<>>
       /\ query_all(arg, None, None)
  \/ \E i \in DOMAIN work : WorkerStart(i)
  \/ \E i \in DOMAIN work : WorkerStep(i)
  \/ \E i \in DOMAIN work : WorkerReturn(i)
  \/ BulkReturn

OptionSpec == OptionInit /\ [][OptionNext]_vars

\* --------------------------------------------------------- StenoKeys.without
\* The orderings of a key string: the strings with the same keys as often.
Orderings(s) ==
  {t \in [1..Len(s) -> {s[i] : i \in 1..Len(s)}] :
     \A c \in {s[i] : i \in 1..Len(s)} : Count(t, c) = Count(s, c)}

\* A key string, keys to remove from it, and the same keys in some order.
KeysInit ==
  /\ LexerIdle
  /\ wo_self \in SeqsUpTo(StrokeTokens, MaxKeys + 1)
  /\ wo_other \in SeqsUpTo(StrokeTokens, MaxKeys)
  /\ wo_perm \in Orderings(wo_other)
  /\ wo_result = <<>>
  /\ wo_result2 = <<>>
  /\ NoTests
  /\ NoPlover
  /\ NoDialog
  /\ NoGui

\* wo_self.without(wo_other) is called; what it returns is kept.
call_without ==
  /\ wo_result = <<>>
  /\ wo_result' = <<without(wo_self, wo_other)>>
  /\ UNCHANGED <<lexer_vars, gui_vars, wo_self, wo_other, wo_perm, wo_result2,
                 tests_vars, plover_vars, dialog_vars>>

\* wo_self.without(wo_perm) is called; what it returns is kept.
call_without_perm ==
  /\ wo_result2 = <<>>
  /\ wo_result2' = <<without(wo_self, wo_perm)>>
  /\ UNCHANGED <<lexer_vars, gui_vars, wo_self, wo_other, wo_perm, wo_result,
                 tests_vars, plover_vars, dialog_vars>>

KeysNext == call_without \/ call_without_perm

KeysSpec == KeysInit /\ [][KeysNext]_vars

\* ------------------------------------------------ the tests of the rules
\* The flags a rule may have, and a string that is not one of them.
LegalFlags == {"SPEC", "RARE"}
IllegalFlag == "BAD"

\* VALID_FLAGS of test_main.py and LEGAL_FLAG_SET of test_all.py.
VALID_FLAGS == LegalFlags
LEGAL_FLAG_SET == LegalFlags

\* IGNORED_KEYS = set("/-")
IGNORED_KEYS == {"/", "-"}

\* The rules tested: key strings with a repeated key and with a stroke
\* separator, a rule map of at most MaxChildren items whose rules have one or
\* two keys, items inside and outside the letters, legal and illegal flags.
TestedKeys == {<<"S", "T">>, <<"S", "/", "T">>, <<"T", "T">>, <<"T">>}
TestedLetters == {<<"a">>, <<"a", "b">>}
TestedFlags == {{}, {"SPEC"}, {IllegalFlag}, {"RARE", IllegalFlag}}
TestedSpans == {<<0, 1>>, <<1, 1>>, <<1, 2>>, <<0 - 1, 1>>, <<1, 0 - 1>>}
TestedItems ==
  {[keys |-> k, start |-> sp[1], length |-> sp[2]] :
     k \in {<<"S">>, <<"T">>, <<"S", "T">>}, sp \in TestedSpans}
TestedRules ==
  {[keys |-> k, letters |-> l, flags |-> fl, rulemap |-> m] :
     k \in TestedKeys, l \in TestedLetters, fl \in TestedFlags,
     m \in SeqsUpTo(TestedItems, MaxChildren)}

\* No flag is reported.
illegal_flagsNone(flags) == {}

\* test_main.py: the flags f of the rule with "f in VALID_FLAGS" false.
illegal_flags(flags) == {f \in flags : f \notin VALID_FLAGS}

\* test_all.py: bad_flags = set(r.flags) - LEGAL_FLAG_SET
bad_flags(flags) == flags \ LEGAL_FLAG_SET

\* The end of the item may lie one letter after the parent's letters.
in_boundsOffByOne(item, parent_len) ==
  /\ item.start >= 0
  /\ item.length >= 0
  /\ item.start + item.length <= parent_len + 1

\* test_main.py: the three assertions on an item of the rule map.
in_bounds(item, parent_len) ==
  /\ item.start >= 0
  /\ item.length >= 0
  /\ item.start + item.length <= parent_len

\* Number of times key k occurs in the rules of a rule map.
ChildCount(rulemap, k) ==
  Cardinality(UNION {{<<n, j>> : j \in {i \in 1..Len(rulemap[n].keys) :
                                            rulemap[n].keys[i] = k}} :
                       n \in 1..Len(rulemap)})

\* The keys of a rule and of the rules of its rule map.
KeysSeen(r) ==
  {r.keys[i] : i \in 1..Len(r.keys)}
    \cup UNION {{r.rulemap[n].keys[j] : j \in 1..Len(r.rulemap[n].keys)} :
                  n \in 1..Len(r.rulemap)}

\* key_count after Counter(rule.keys) and the subtract of every item.
key_count(r, k) == Count(r.keys, k) - ChildCount(r.rulemap, k)

\* Only the keys the child rules lack are reported.
mismatchedMissing(r) ==
  {k \in KeysSeen(r) : key_count(r, k) > 0 /\ k \notin IGNORED_KEYS}

\* test_main.py: the keys k with key_count[k] not zero and k not ignored.
mismatched(r) ==
  {k \in KeysSeen(r) : key_count(r, k) # 0 /\ k \notin IGNORED_KEYS}

\* The set of keys of a key string.
KeySet(keys) == {keys[i] : i \in 1..Len(keys)}

\* test_all.py: the loop over child_key_sets finds no conflicts.
no_conflicts(rulemap) ==
  \A n \in 1..Len(rulemap) :
    (UNION {KeySet(rulemap[m].keys) : m \in 1..(n - 1)})
      \cap KeySet(rulemap[n].keys) = {}

\* test_all.py: key_diff = set(r.keys) ^ combined_child_keys
key_diff(r) ==
  LET combined == UNION {KeySet(r.rulemap[n].keys) : n \in 1..Len(r.rulemap)}
  IN (KeySet(r.keys) \ combined) \cup (combined \ KeySet(r.keys))

\* A rule of the loaded repository is about to be tested.
TestsInit ==
  /\ LexerIdle
  /\ NoKeys
  /\ rule \in TestedRules
  /\ main_verdict = "none"
  /\ all_verdict = "none"
  /\ NoPlover
  /\ NoDialog
  /\ NoGui

\* test_rules of test_main.py on the rule.
test_rules_main ==
  /\ main_verdict = "none"
  /\ main_verdict' =
       IF /\ illegal_flags(rule.flags) = {}
          /\ (rule.rulemap # <<>> =>
                /\ \A n \in 1..Len(rule.rulemap) :
                     in_bounds(rule.rulemap[n], Len(rule.letters))
                /\ mismatched(rule) = {})
         THEN "passed" ELSE "AssertionError"
  /\ UNCHANGED <<lexer_vars, gui_vars, keys_vars, rule, all_verdict, plover_vars,
                 dialog_vars>>

\* test_rules of test_all.py on the rule.
test_rules_all ==
  /\ all_verdict = "none"
  /\ all_verdict' =
       IF /\ (rule.flags # {} => bad_flags(rule.flags) = {})
          /\ (rule.rulemap # <<>> =>
                no_conflicts(rule.rulemap) /\ key_diff(rule) = {})
         THEN "passed" ELSE "AssertionError"
  /\ UNCHANGED <<lexer_vars, gui_vars, keys_vars, rule, main_verdict, plover_vars,
                 dialog_vars>>

TestsNext == test_rules_main \/ test_rules_all

TestsSpec == TestsInit /\ [][TestsNext]_vars

\* ------------------------------------------- the Plover dictionary classes
\* PLOVER_SEP = "/"
PLOVER_SEP == "/"

\* The stroke strings that are keys of the dicts given: one stroke, two
\* strokes, and strings with an empty stroke.
PloverKeys ==
  {<<"S">>, <<"S", PLOVER_SEP, "T">>, <<PLOVER_SEP, "T">>, <<>>}
PloverValues == {"a", "b"}

\* The dicts given: at most MaxItems + 1 items with different keys, in the
\* order of insertion.
PloverDicts ==
  {d \in SeqsUpTo(PloverKeys \X PloverValues, MaxItems + 1) :
     \A m \in 1..Len(d) : \A n \in 1..Len(d) : d[m][1] = d[n][1] => m = n}

\* k.split(PLOVER_SEP): the strokes between the separators of k.
split(k) ==
  LET seps == {i \in 1..Len(k) : k[i] = PLOVER_SEP}
      cut  == [n \in 0..(Cardinality(seps) + 1) |->
                 IF n = 0 THEN 0
                 ELSE IF n = Cardinality(seps) + 1 THEN Len(k) + 1
                 ELSE CHOOSE i \in seps :
                        Cardinality({j \in seps : j <= i}) = n]
  IN [n \in 1..(Cardinality(seps) + 1) |->
        SubSeq(k, cut[n - 1] + 1, cut[n] - 1)]

\* join_strokes = PLOVER_SEP.join
RECURSIVE join_strokes(_)
join_strokes(t) ==
  IF t = <<>> THEN <<>>
  ELSE IF Len(t) = 1 THEN t[1]
  ELSE t[1] \o <<PLOVER_SEP>> \o join_strokes(Tail(t))

\* dict(pairs): one item for every key, where the key came first, with the
\* value that came last.
dict(prs) ==
  LET firsts == {n \in 1..Len(prs) : \A m \in 1..(n - 1) : prs[m][1] # prs[n][1]}
      last(n) == CHOOSE m \in 1..Len(prs) :
                   /\ prs[m][1] = prs[n][1]
                   /\ \A j \in (m + 1)..Len(prs) : prs[j][1] # prs[n][1]
  IN [k \in 1..Cardinality(firsts) |->
        LET n == CHOOSE i \in firsts : Cardinality({j \in firsts : j <= i}) = k
        IN <<prs[n][1], prs[last(n)][2]>>]

\* The slice takes everything from index i on.
SliceFrom(l, i, step) == SubSeq(l, i + 1, Len(l))

\* l[i::step]
Slice(l, i, step) ==
  [m \in 1..(IF i >= Len(l) THEN 0 ELSE ((Len(l) - i - 1) \div step) + 1) |->
     l[i + 1 + (m - 1) * step]]

\* PloverStenoDict(d)._dict: the keys of d split into tuples of strokes.
PloverStenoDict(d) == dict([n \in 1..Len(d) |-> <<split(d[n][1]), d[n][2]>>])

\* PloverStenoDictCollection(d, split_count).dicts
PloverStenoDictCollection(d, n) ==
  [i \in 1..n |-> PloverStenoDict(dict(Slice(d, i - 1, n)))]

PloverInit ==
  /\ LexerIdle
  /\ NoKeys
  /\ NoTests
  /\ pl_d \in PloverDicts
  /\ pl_split_count \in 1..(MaxItems + 2)
  /\ pl_dicts = <<>>
  /\ NoDialog
  /\ NoGui

\* PloverStenoDictCollection(pl_d, pl_split_count) is constructed.
new_collection ==
  /\ pl_dicts = <<>>
  /\ pl_dicts' = PloverStenoDictCollection(pl_d, pl_split_count)
  /\ UNCHANGED <<lexer_vars, gui_vars, keys_vars, tests_vars, pl_d, pl_split_count,
                 dialog_vars>>

PloverNext == new_collection

PloverSpec == PloverInit /\ [][PloverNext]_vars

\* ------------------------------------------------------- the Plover plugin
\* The arguments Plover constructs the dialog with.
PloverArgs == {<<>>, <<"engine">>, <<"engine", "parent">>}

\* An Application is made on every call.
NeedsAppAlways(w) == TRUE

\* if cls.window is None
NeedsApp(w) == w = NoWindow

DialogInit ==
  /\ LexerIdle
  /\ NoKeys
  /\ NoTests
  /\ NoPlover
  /\ NoDialog
  /\ NoGui

\* PloverDialog(*args): __new__ makes and starts an Application and saves
\* its window when none is saved, and returns the window saved.
PloverDialog(args) ==
  /\ Len(constructed) < MaxDialogs
  /\ IF NeedsApp(window)
       THEN /\ apps_created' = apps_created + 1
            /\ apps_started' = apps_started + 1
            /\ window' = apps_created + 1
       ELSE UNCHANGED <<apps_created, apps_started, window>>
  /\ constructed' = Append(constructed, [args |-> args, returned |-> window'])
  /\ UNCHANGED <<lexer_vars, gui_vars, keys_vars, tests_vars, plover_vars>>

DialogNext == \E args \in PloverArgs : PloverDialog(args)

DialogSpec == DialogInit /\ [][DialogNext]_vars

\* ------------------------------------------------------- HistoryTracker
\* The lines of keyboard input added to the history, the number of lines a
\* history is followed up to, and the increments get is called with.
MaxHistory == 3
HistoryInputs == {"a", "b"}
Increments == -2..2

Min(a, b) == IF a < b THEN a ELSE b
Max(a, b) == IF a > b THEN a ELSE b

\* The pointer may stay just after the end.
clampToLen(p, n) == Min(Max(p, 0), n)

\* min(max(pointer + increment, 0), len(self._lines) - 1)
clamp(p, n) == Min(Max(p, 0), n - 1)

\* lines[p] of Python: p counts from 0, a negative p counts from the end,
\* and an index outside the list raises IndexError.
Subscript(lines, p) ==
  IF 0 <= p /\ p < Len(lines) THEN lines[p + 1]
  ELSE IF -Len(lines) <= p /\ p < 0 THEN lines[Len(lines) + p + 1]
  ELSE "IndexError"

\* HistoryTracker(): one empty line, pointer at it.
HistoryInit ==
  /\ LexerIdle
  /\ NoKeys
  /\ NoTests
  /\ NoPlover
  /\ NoDialog
  /\ NoView
  /\ NoSuffix
  /\ h_lines = <<"">>
  /\ h_pointer = 0
  /\ h_last = [op |-> "init", after |-> "none", arg |-> None, at |-> 0,
               ret |-> None]

\* add(s): the line is appended and the pointer set just after the end.
history_add(line) ==
  /\ Len(h_lines) <= MaxHistory
  /\ h_lines' = Append(h_lines, line)
  /\ h_pointer' = Len(h_lines')
  /\ h_last' = [op |-> "add", after |-> h_last.op, arg |-> line,
                at |-> h_pointer', ret |-> None]
  /\ UNCHANGED <<lexer_vars, keys_vars, tests_vars, plover_vars, dialog_vars,
                 view_vars, suffix_vars>>

\* get(increment), called as name: the pointer is moved and bounded, and
\* the line at the pointer is returned.
history_get(name, increment) ==
  /\ h_pointer' = clamp(h_pointer + increment, Len(h_lines))
  /\ h_last' = [op |-> name, after |-> h_last.op, arg |-> increment,
                at |-> h_pointer', ret |-> Subscript(h_lines, h_pointer')]
  /\ UNCHANGED <<lexer_vars, keys_vars, tests_vars, plover_vars, dialog_vars,
                 view_vars, suffix_vars, h_lines>>

\* prev() is get(-1) and next() is get(1).
history_prev == history_get("prev", -1)
history_next == history_get("next", 1)

HistoryNext ==
  \/ \E line \in HistoryInputs : history_add(line)
  \/ history_prev
  \/ history_next
  \/ \E increment \in Increments : history_get("get", increment)

HistorySpec == HistoryInit /\ [][HistoryNext]_vars

\* -------------------------------------------------------------- ViewState
\* A string of the view state is the sequence of its parts; "" is <<>>.
\* The number of calls of update and of action methods on one ViewState.
MaxCalls == 2

\* _MORE_TEXT and _INDEX_DELIM.
MORE_TEXT == <<"(more...)">>
INDEX_DELIM == <<";">>

\* Two matches of a search, two mappings of a match, a rule name and a node
\* reference.
M1 == <<"m1">>
M2 == <<"m2">>
K1 == <<"k1">>
K2 == <<"k2">>
RuleName == <<"r">>
NodeRef == <<"n">>

\* The class attributes of ViewState: the values read until one is loaded or
\* assigned.  The inputs that are only handed on to the engine are left out.
ViewDefaults ==
  [mode_strokes |-> FALSE, matches_per_page |-> 100, input_text |-> <<>>,
   match_selected |-> <<>>, mapping_selected |-> <<>>,
   translation |-> << <<>>, <<>> >>, graph_node_ref |-> <<>>,
   link_ref |-> <<>>, page_count |-> 1, graph_has_focus |-> FALSE,
   matches |-> <<>>, mappings |-> <<>>, graph_text |-> <<>>,
   board_caption |-> <<>>, board_xml_data |-> <<>>]

\* The attributes of ViewState whose names start with "_".
PrivateNames == {"_steno_engine", "_modified"}

\* The states update is given: config options and state of the GUI.
ViewLoads ==
  << [matches_per_page |-> 1, link_ref |-> RuleName],
     [matches_per_page |-> 2, link_ref |-> RuleName, input_text |-> <<"t">>,
      match_selected |-> MORE_TEXT, mode_strokes |-> TRUE],
     [graph_has_focus |-> TRUE, graph_node_ref |-> NodeRef,
      translation |-> <<K1, M1>>],
     [matches_per_page |-> 2, input_text |-> <<"t">>, match_selected |-> M1,
      mapping_selected |-> K1] >>

\* The results a search may have: no match; one match with no mapping,
\* with one and with two; and two matches.
SearchResults ==
  {[matches |-> <<>>, mappings |-> <<>>, is_complete |-> TRUE],
   [matches |-> <<M1>>, mappings |-> <<<<>>>>, is_complete |-> TRUE],
   [matches |-> <<M1>>, mappings |-> <<<<K1>>>>, is_complete |-> TRUE],
   [matches |-> <<M1>>, mappings |-> <<<<K1, K2>>>>, is_complete |-> FALSE],
   [matches |-> <<M1, M2>>, mappings |-> <<<<K1, K2>>, <<K2>>>>,
    is_complete |-> TRUE],
   [matches |-> <<M1, M2>>, mappings |-> <<<<K1, K2>>, <<K2>>>>,
    is_complete |-> FALSE]}

\* What the engine may return for a search asked for count matches: at most
\* count matches, none of them _MORE_TEXT, with the mappings of each, and
\* is_complete false only when the count was met.
SearchReplies(count) ==
  {r \in SearchResults :
     /\ Len(r.matches) <= count
     /\ ~r.is_complete => Len(r.matches) = count}

\* What the engine may return for analyze: a page with or without a rule.
Pages ==
  {[graph |-> <<"g">>, caption |-> <<"c">>, board |-> <<"x">>, rule_id |-> id] :
     id \in {<<>>, RuleName}}

\* d[k] = v on a dict.
Put(d, k, v) == [n \in DOMAIN d \cup {k} |-> IF n = k THEN v ELSE d[n]]

\* dict.update(d, e).
Updated(d, e) ==
  [n \in DOMAIN d \cup DOMAIN e |-> IF n \in DOMAIN e THEN e[n] ELSE d[n]]

\* Every name is tracked, private or not.
TrackedAlways(name) == TRUE

\* not name.startswith("_")
Tracked(name) == name \notin PrivateNames

\* The view state a method works on: its attributes, its _modified dict,
\* the assignments made (kept for the properties), and the calls of
\* engine.analyze made by the method so far.
View == [attrs |-> vs_attrs, modified |-> vs_modified,
         assigned |-> vs_assigned, analyzed |-> 0]

\* ViewState.__setattr__(name, value): the attribute is set, and then the
\* value is put in self._modified if the name is tracked.
setattr(v, name, value) ==
  [attrs    |-> IF name \in PrivateNames THEN v.attrs
                ELSE Put(v.attrs, name, value),
   modified |-> LET set == IF name = "_modified" THEN value ELSE v.modified
                IN IF Tracked(name) THEN Put(set, name, value) ELSE set,
   assigned |-> Append(v.assigned, <<name, value>>),
   analyzed |-> v.analyzed]

\* count=self.page_count * self.matches_per_page
Count_of(v) == v.attrs.page_count * v.attrs.matches_per_page

\* ViewState._search with r what _call_search returns.
_search(v, r) ==
  LET matches == IF v.attrs.input_text = <<>> THEN <<>>
                 ELSE IF ~r.is_complete THEN Append(r.matches, MORE_TEXT)
                 ELSE r.matches
  IN setattr(setattr(v, "matches", matches), "mappings", <<>>)

\* ViewState._exec_query with page what engine.analyze returns.
_exec_query(v, find_rule, intense, page) ==
  LET keys    == v.attrs.translation[1]
      letters == v.attrs.translation[2]
  IN IF ~(keys # <<>> /\ letters # <<>>) THEN v
     ELSE LET called == [v EXCEPT !.analyzed = @ + 1]
          IN setattr(setattr(setattr(setattr(called,
               "graph_text", page.graph),
               "board_caption", page.caption),
               "board_xml_data", page.board),
               "link_ref", page.rule_id)

\* ViewState._new_graph.
_new_graph(v, page) ==
  LET cleared == setattr(v, "graph_node_ref", <<>>)
      queried == _exec_query(cleared, cleared.attrs.graph_has_focus, TRUE, page)
  IN IF queried.attrs.link_ref = <<>>
       THEN setattr(queried, "graph_has_focus", FALSE)
       ELSE queried

\* ViewState._query_from_selection: the list assigned to translation is
\* reversed afterwards, in the attribute and in _modified alike.
_query_from_selection(v, page) ==
  LET translation == <<v.attrs.match_selected, v.attrs.mapping_selected>>
  IN _new_graph(setattr(v, "translation",
                        IF ~v.attrs.mode_strokes THEN Reverse(translation)
                        ELSE translation),
                page)

\* ViewState._lookup with r what _call_search returns, best the index of the
\* mapping engine.lexer_best_strokes returns, and page what analyze returns.
_lookup(v, r, best, page) ==
  LET mt == v.attrs.match_selected
  IN IF ~(\E i \in 1..Len(r.matches) : r.matches[i] = mt) THEN v
     ELSE LET idx      == CHOOSE i \in 1..Len(r.matches) :
                            /\ r.matches[i] = mt
                            /\ \A j \in 1..(i - 1) : r.matches[j] # mt
              mappings == r.mappings[idx]
              mapped   == setattr(v, "mappings", mappings)
          IN IF mappings = <<>> THEN mapped
             ELSE LET selection == IF Len(mappings) = 1 THEN mappings[1]
                                   ELSE mappings[Min(best, Len(mappings))]
                  IN _query_from_selection(
                       setattr(mapped, "mapping_selected", selection), page)

\* Mouseovers query also when a node has the focus.
OverQueriesAlways(focus) == TRUE

\* if not self.graph_has_focus
OverQueries(focus) == ~focus

\* bool(self.graph_node_ref)
ClickFocus(ref) == ref # <<>>

\* ViewState(steno_engine): the engine and an empty tracker are assigned.
ViewInit ==
  /\ LexerIdle
  /\ NoKeys
  /\ NoTests
  /\ NoPlover
  /\ NoDialog
  /\ NoConsole
  /\ NoSuffix
  /\ vs_attrs = ViewDefaults
  /\ vs_modified = <<>>
  /\ vs_assigned = << <<"_steno_engine", None>>, <<"_modified", <<>> >> >>
  /\ vs_last = [op |-> "__init__", ret |-> <<>>, analyzed |-> 0,
                found |-> <<>>]
  /\ vs_ops = 0

\* A method called name has run and left the view state v; ret is what it
\* returned and found the matches its first search got from the engine.
\* The calls of get_modified are followed without a bound.
Called(name, v, ret, found) ==
  /\ name = "get_modified" \/ vs_ops < MaxCalls
  /\ vs_ops' = IF name = "get_modified" THEN vs_ops ELSE vs_ops + 1
  /\ vs_attrs' = v.attrs
  /\ vs_modified' = v.modified
  /\ vs_assigned' = v.assigned
  /\ vs_last' = [op |-> name, ret |-> ret, analyzed |-> v.analyzed,
                 found |-> found]
  /\ UNCHANGED <<lexer_vars, keys_vars, tests_vars, plover_vars, dialog_vars,
                 console_vars, suffix_vars>>

\* update(d): the values of d are written into the instance dict; the
\* tracker is not touched.
update(d) ==
  Called("update", [View EXCEPT !.attrs = Updated(@, d)], <<>>, <<>>)

\* get_modified(): the tracker is returned and an empty one assigned.
get_modified ==
  Called("get_modified",
         setattr([View EXCEPT !.assigned = <<>>], "_modified", <<>>),
         vs_modified, <<>>)

RUNSearchExamples ==
  LET linked == setattr(View, "input_text", vs_attrs.link_ref \o INDEX_DELIM)
      paged  == setattr(linked, "page_count", 1)
  IN \E r1 \in SearchReplies(Count_of(paged)) :
       LET searched1 == _search(paged, r1)
           matches   == searched1.attrs.matches
       IN IF matches = <<>>
            THEN Called("RUNSearchExamples", searched1, <<>>, r1.matches)
            ELSE LET mt       == matches[(Len(matches) \div 2) + 1]
                     selected == setattr(searched1, "match_selected", mt)
                     typed    == setattr(selected, "input_text",
                                         selected.attrs.input_text \o mt)
                 \* _search and _lookup make the same search
                 IN \E r2 \in SearchReplies(Count_of(typed)) :
                    \E best \in 1..2 : \E page \in Pages :
                      Called("RUNSearchExamples",
                             _lookup(_search(typed, r2), r2, best, page),
                             <<>>, r1.matches)

RUNSearch ==
  LET paged == setattr(View, "page_count", 1)
  IN \E r1 \in SearchReplies(Count_of(paged)) :
       LET searched1 == _search(paged, r1)
       IN IF Len(searched1.attrs.matches) = 1
            THEN \E r2 \in SearchReplies(Count_of(paged)) :
                 \E best \in 1..2 : \E page \in Pages :
                   Called("RUNSearch",
                          _lookup(setattr(searched1, "match_selected",
                                          searched1.attrs.matches[1]),
                                  r2, best, page),
                          <<>>, r1.matches)
            ELSE Called("RUNSearch", searched1, <<>>, r1.matches)

RUNLookup ==
  IF vs_attrs.match_selected = MORE_TEXT
    THEN LET paged == setattr(View, "page_count", vs_attrs.page_count + 1)
         IN \E r1 \in SearchReplies(Count_of(paged)) :
              Called("RUNLookup", _search(paged, r1), <<>>, r1.matches)
    ELSE \E r1 \in SearchReplies(Count_of(View)) :
         \E best \in 1..2 : \E page \in Pages :
           Called("RUNLookup", _lookup(View, r1, best, page), <<>>, r1.matches)

RUNSelect ==
  \E page \in Pages :
    Called("RUNSelect", _query_from_selection(View, page), <<>>, <<>>)

RUNQuery ==
  \E page \in Pages : Called("RUNQuery", _new_graph(View, page), <<>>, <<>>)

RUNGraphOver ==
  \E page \in Pages :
    Called("RUNGraphOver",
           IF OverQueries(vs_attrs.graph_has_focus)
             THEN _exec_query(View, FALSE, FALSE, page)
             ELSE View,
           <<>>, <<>>)

RUNGraphClick ==
  \E page \in Pages :
    LET queried == _exec_query(View, FALSE, TRUE, page)
    IN Called("RUNGraphClick",
              setattr(queried, "graph_has_focus",
                      ClickFocus(queried.attrs.graph_node_ref)),
              <<>>, <<>>)

ViewNext ==
  \/ \E i \in 1..Len(ViewLoads) : update(ViewLoads[i])
  \/ get_modified
  \/ RUNSearchExamples
  \/ RUNSearch
  \/ RUNLookup
  \/ RUNSelect
  \/ RUNQuery
  \/ RUNGraphOver
  \/ RUNGraphClick

ViewSpec == ViewInit /\ [][ViewNext]_vars

\* ------------------------------------------------------------ str_suffix
\* The strings str_suffix is called on: at most MaxText characters, each a
\* letter or the character the separators are made of.
MaxText == 4
TextAlphabet == {"x", "."}
Separators == {<<".">>, <<".", ".">>}

\* str.split(s, sep, maxsplit=1): s is cut at the first sep, if there is one.
split_once(str, sep) ==
  LET i == find(str, sep)
  IN IF i < 0 THEN <<str>>
     ELSE <<SubSeq(str, 1, i), Suffix(str, i + Len(sep))>>

\* utils.str_suffix: _split(s, sep, 1)[-1]
str_suffix(str, sep) ==
  LET parts == split_once(str, sep) IN parts[Len(parts)]

SuffixInit ==
  /\ LexerIdle
  /\ NoKeys
  /\ NoTests
  /\ NoPlover
  /\ NoDialog
  /\ NoConsole
  /\ NoView
  /\ sx_s \in SeqsUpTo(TextAlphabet, MaxText)
  /\ sx_sep \in Separators
  /\ sx_result = <<>>

\* str_suffix(sx_s, sx_sep) is called; what it returns is kept.
call_str_suffix ==
  /\ sx_result = <<>>
  /\ sx_result' = <<str_suffix(sx_s, sx_sep)>>
  /\ UNCHANGED <<lexer_vars, keys_vars, tests_vars, plover_vars, dialog_vars,
                 console_vars, view_vars, sx_s, sx_sep>>

SuffixNext == call_str_suffix

SuffixSpec == SuffixInit /\ [][SuffixNext]_vars

\* ------------------------------------------------------------- properties

\* C1: a query of the program with need_all_keys on returns a complete,
\* non-fallback decomposition with a non-empty rule map when a complete
\* decomposition exists in the search space, and the fallback when none does.
C1_Completeness ==
  \A n \in 1..Len(answers) :
    (answers[n].check /\ answers[n].need_all_keys) =>
      IF HasComplete(Root)
        THEN /\ answers[n].result.complete
             /\ ~IsFallback(answers[n].result)
             /\ answers[n].result.rulemap # <<>>
        ELSE /\ IsFallback(answers[n].result)
             /\ ~answers[n].result.complete

\* A query with need_all_keys on has returned a complete decomposition of more
\* than one item.
C1_Witness ==
  /\ Returned
  /\ answers[Len(answers)].check
  /\ need_all_keys
  /\ HasComplete(Root)
  /\ output.complete
  /\ Len(output.rulemap) > 1

\* C2: the search with the space_left check and the search without it select
\* the same decomposition.
C2_PruningTransparent ==
  \A m, n \in 1..Len(answers) :
    (/\ answers[m].check
     /\ ~answers[n].check
     /\ answers[m].need_all_keys = answers[n].need_all_keys)
      => answers[m].result = answers[n].result

\* The check has filtered candidates out: the search with the check gathered
\* fewer results than the search without it, and both have returned.
C2_Witness ==
  \E m, n \in 1..Len(answers) :
    /\ answers[m].check
    /\ ~answers[n].check
    /\ answers[m].found < answers[n].found
    /\ answers[m].result = answers[n].result
    /\ ~IsFallback(answers[m].result)

\* C3: a query that has started its search empties the stack and returns.
C3_Termination == (pc = "search") ~> (pc = "idle" /\ stack = <<>>)

\* A query whose search pushed frames and gathered results has returned.
C3_Witness ==
  /\ Returned
  /\ stack = <<>>
  /\ Len(results) > 1

C6_BestIsMaximal ==
  (Returned /\ results # <<>>) =>
    \E i \in 1..Len(results) :
      /\ output.rulemap = results[i].rulemap
      /\ output.complete = (results[i].unmatched = <<>>)
      /\ \A j \in 1..Len(results) : ~Outranks(results[j], results[i])

\* A query has returned a result that was not the first one produced and
\* that outranks the first one.
C6_Witness ==
  /\ Returned
  /\ Len(results) > 1
  /\ output.rulemap # results[1].rulemap
  /\ \E i \in 2..Len(results) :
       output.rulemap = results[i].rulemap /\ Outranks(results[i], results[1])

\* C7: of the results that tie on completeness, letters matched and number
\* of items, the one produced first is returned.
C7_FirstProducedWinsTies ==
  (Returned /\ results # <<>>) =>
    \A i, j \in 1..Len(results) :
      (/\ output.rulemap = results[i].rulemap
       /\ ~Outranks(results[i], results[j])
       /\ ~Outranks(results[j], results[i]))
        => i <= j

\* A query has returned a result that ties with a result produced later.
C7_Witness ==
  /\ Returned
  /\ \E i, j \in 1..Len(results) :
       /\ i < j
       /\ output.rulemap = results[i].rulemap
       /\ ~Outranks(results[i], results[j])
       /\ ~Outranks(results[j], results[i])

\* C8: a popped frame with an empty rule map is not yielded; with
\* need_all_keys off every popped frame with a non-empty rule map is yielded;
\* with need_all_keys on every result yielded has no keys left.
C8_YieldRule ==
  [][(pc = "search" /\ stack # <<>>) =>
       LET f == Top(stack)
           r == [rulemap |-> f.rulemap, unmatched |-> f.test_keys,
                 keys |-> cleanse_from_rtfcre(q_keys), word |-> q_word]
       IN /\ (f.rulemap = <<>> => results' = results)
          /\ ((f.rulemap # <<>> /\ ~need_all_keys) => results' = Append(results, r))
          /\ ((f.rulemap # <<>> /\ f.test_keys = <<>>) => results' = Append(results, r))
          /\ (need_all_keys =>
                \A i \in 1..Len(results') : results'[i].unmatched = <<>>)]_vars

\* With need_all_keys on, a result has been yielded and a frame with a
\* non-empty rule map and keys left is about to be popped.
C8_Witness ==
  /\ need_all_keys
  /\ pc = "search"
  /\ results # <<>>
  /\ stack # <<>>
  /\ Top(stack).rulemap # <<>>
  /\ Top(stack).test_keys # <<>>

\* Items of a rule map within the word.
ItemsInWord(rulemap, n) ==
  \A k \in 1..Len(rulemap) :
    /\ 0 <= rulemap[k].start
    /\ 0 <= rulemap[k].length
    /\ rulemap[k].start + rulemap[k].length <= n

\* C9: every item of every rule map yielded lies within the word.
C9_ItemsInBounds == \A m \in YieldedMaps : ItemsInWord(m, Len(q_word))

\* A rule map has been yielded whose last item ends at the end of the word
\* after letters were skipped.
C9_Witness ==
  \E m \in YieldedMaps :
    /\ m[Len(m)].start + m[Len(m)].length = Len(q_word)
    /\ m[1].start > 0

\* C10 as stated: every item of a yielded rule map starts after the item
\* before it.
C10_StrictlyIncreasing ==
  \A m \in YieldedMaps :
    \A k \in 1..(Len(m) - 1) : m[k + 1].start > m[k].start

\* C10: in every rule map yielded no item starts before the item before it,
\* and an item starts after the item before it when that item has letters.
C10_NonDecreasing ==
  \A m \in YieldedMaps :
    \A k \in 1..(Len(m) - 1) :
      /\ m[k + 1].start >= m[k].start
      /\ (m[k].length > 0 => m[k + 1].start > m[k].start)

\* A rule map has been yielded with two items at the same offset, and one
\* with two items at different offsets.
C10_Witness ==
  /\ \E m \in YieldedMaps : Len(m) = 2 /\ m[1].start = m[2].start
  /\ \E m \in YieldedMaps : Len(m) = 2 /\ m[1].start < m[2].start

\* Number of keys of rule r.
KeyCount(r) == Len(RuleUniverse[r].keys)

\* Paths a and b share their first k - 1 rules and differ in the k-th: they
\* lie at or below two sibling candidates of one frame.
DivergeAt(a, b, k) ==
  /\ k <= Len(a)
  /\ k <= Len(b)
  /\ SubSeq(a, 1, k - 1) = SubSeq(b, 1, k - 1)
  /\ a[k] # b[k]

C19_LifoOrder ==
  [][(pc = "search" /\ stack # <<>>) =>
       LET n   == Len(stack)
           top == stack[n]
       IN /\ popped' = Append(popped, Path(top.rulemap))
          /\ Len(stack') >= n - 1
          /\ SubSeq(stack', 1, n - 1) = SubSeq(stack, 1, n - 1)
          /\ \A k \in n..Len(stack') :
               /\ Len(stack'[k].rulemap) = Len(top.rulemap) + 1
               /\ SubSeq(stack'[k].rulemap, 1, Len(top.rulemap)) = top.rulemap
          /\ \A k \in n..(Len(stack') - 1) :
               /\ RuleBefore(stack'[k].rulemap[Len(top.rulemap) + 1].rule,
                             stack'[k + 1].rulemap[Len(top.rulemap) + 1].rule)
               /\ stack'[k].rulemap # stack'[k + 1].rulemap
          /\ (results' # results =>
                /\ results' = Append(results, results'[Len(results')])
                /\ results'[Len(results')].rulemap = top.rulemap)]_vars

\* A search has frames of two expansions on its stack, has popped frames and
\* has yielded results.
C19_Witness ==
  /\ pc = "search"
  /\ Len(stack) >= 2
  /\ Len(stack[Len(stack)].rulemap) > Len(stack[1].rulemap)
  /\ Len(popped) >= 2
  /\ results # <<>>

\* C20: when cleansing leaves no key, the search yields nothing and never
\* asks the matcher, and the query returns the fallback for the keys and the
\* word as given.
C20_EmptyAfterCleanse ==
  (pc # "idle" \/ answers # <<>>) =>
    (cleanse_from_rtfcre(q_keys) = <<>> =>
       /\ results = <<>>
       /\ match_calls = 0
       /\ Len(stack) <= 1
       /\ (Returned =>
             /\ IsFallback(output)
             /\ output.rulemap[1].start = 0
             /\ output.rulemap[1].length = Len(q_word)
             /\ output.keys = q_keys
             /\ output.letters = q_word))

\* A query on a key string of one unrecognised token, with rules in the
\* repository and a word to match, has returned.
C20_Witness ==
  /\ Returned
  /\ q_keys = <<JunkToken>>
  /\ q_word # <<>>
  /\ rules # {}
  /\ IsFallback(output)

\* query_product has returned.
ProductReturned == op = "product" /\ pc = "idle"

\* Sum of the numbers of results of the pairs searched.
RECURSIVE SumFound(_)
SumFound(sq) == IF sq = <<>> THEN 0 ELSE Head(sq).found + SumFound(Tail(sq))

\* C12: a product query searches every pair of keys_iter x words_iter, in
\* order, pools the results of all of them, and returns the decomposition of
\* a pooled result that no pooled result outranks, the first such one.
C12_ProductPoolsAllPairs ==
  ProductReturned =>
    /\ Len(pairs) = Len(keys_iter) * Len(words_iter)
    /\ \A i \in 1..Len(keys_iter) : \A j \in 1..Len(words_iter) :
         pairs[(i - 1) * Len(words_iter) + j] = <<keys_iter[i], words_iter[j]>>
    /\ Len(searched) = Len(pairs)
    /\ \A n \in 1..Len(pairs) :
         searched[n].keys = pairs[n][1] /\ searched[n].word = pairs[n][2]
    /\ Len(pool) = SumFound(searched)
    /\ pool # <<>> =>
         \E i \in 1..Len(pool) :
           /\ output.rulemap = pool[i].rulemap
           /\ output.keys = pool[i].keys
           /\ output.letters = pool[i].word
           /\ output.complete = (pool[i].unmatched = <<>>)
           /\ \A j \in 1..Len(pool) : ~Outranks(pool[j], pool[i])
           /\ \A j \in 1..(i - 1) : Outranks(pool[i], pool[j])

\* A product query has returned a result of its last pair that outranks every
\* result of its first pair, which had results too.
C12_Witness ==
  /\ ProductReturned
  /\ Len(pairs) >= 2
  /\ searched[1].found > 0
  /\ \E i \in (Len(pool) - searched[Len(pairs)].found + 1)..Len(pool) :
       /\ output.rulemap = pool[i].rulemap
       /\ output.keys = pool[i].keys
       /\ output.letters = pool[i].word
       /\ \A j \in 1..searched[1].found : Outranks(pool[i], pool[j])

\* C13 as stated: a product query raises no error, and when no pair yields a
\* result it returns a fallback decomposition.
C13_ProductNeverFails ==
  /\ raised = "none"
  /\ pc # "error"
  /\ (ProductReturned /\ pool = <<>>) => IsFallback(output)

\* The example query has returned.
ExampleReturned ==
  /\ Returned
  /\ cleanse_from_rtfcre(q_keys) = ExampleKeys
  /\ lower(q_word) = ExampleWord
  /\ ~need_all_keys

\* The items of a rule map are contiguous and jointly cover n letters.
CoversExactly(rulemap, n) ==
  /\ rulemap # <<>>
  /\ rulemap[1].start = 0
  /\ \A k \in 1..(Len(rulemap) - 1) :
       rulemap[k + 1].start = rulemap[k].start + rulemap[k].length
  /\ rulemap[Len(rulemap)].start + rulemap[Len(rulemap)].length = n

\* C11 as stated: with the rules T->t, E->e, F->f the example query returns
\* a complete rule map whose items are contiguous and cover "test" exactly.
C11_ExampleComplete ==
  (ExampleReturned /\ rules = ExampleIds) =>
    /\ output.complete
    /\ CoversExactly(output.rulemap, Len(ExampleWord))

\* C11: with the rules T->t, E->e, F->f the example query returns a rule map
\* that is not the fallback and not complete: its items lie within the word
\* and do not overlap, none of them is F->f, and none covers the letter "s".
\* With the rule F->s added the rule map returned is complete and its items
\* are contiguous and cover "test" exactly.
C11_ExamplePartial ==
  ExampleReturned =>
    /\ ~IsFallback(output)
    /\ ItemsInWord(output.rulemap, Len(ExampleWord))
    /\ \A k \in 1..(Len(output.rulemap) - 1) :
         output.rulemap[k].start + output.rulemap[k].length
           <= output.rulemap[k + 1].start
    /\ rules = ExampleIds =>
         /\ ~output.complete
         /\ \A k \in 1..Len(output.rulemap) :
              /\ RuleUniverse[output.rulemap[k].rule].letters # <<"f">>
              /\ ~(output.rulemap[k].start <= 2
                     /\ 2 < output.rulemap[k].start + output.rulemap[k].length)
    /\ rules = ExampleIds \cup {RuleFs} =>
         /\ output.complete
         /\ CoversExactly(output.rulemap, Len(ExampleWord))

\* The example query has returned the items T->t at 0, E->e at 1 and T->t
\* at 3, leaving the key F unmatched and the letter "s" uncovered.
C11_Witness ==
  /\ ExampleReturned
  /\ rules = ExampleIds
  /\ Len(output.rulemap) = 3
  /\ output.rulemap[3].start = 3
  /\ ~output.complete

\* query_all has returned.
BulkReturned == op = "all" /\ pc = "idle"

\* The while loop of _generate_maps run to its end from stack stk, with
\* best_letters best and the results rs gathered so far: the results.
RECURSIVE RunLoop(_, _, _, _, _, _, _)
RunLoop(repo, nak, keys, word, stk, best, rs) ==
  IF stk = <<>> THEN rs
  ELSE LET f   == Top(stk)
           rs2 == Gathered(rs, f, keys, word, nak)
       IN IF ~Expands(f)
            THEN RunLoop(repo, nak, keys, word, Pop(stk),
                         IF f.lc > best THEN f.lc ELSE best, rs2)
            ELSE RunLoop(repo, nak, keys, word,
                         PushCandidates(Pop(stk), f,
                                        match(repo, f.test_keys, f.test_word,
                                              keys, word, f.rulemap),
                                        SpaceLeft(f, best), TRUE),
                         best, rs2)

\* What query(keys, word) returns when it is run alone from start to end.
SequentialQuery(repo, nak, raw, word) ==
  query_return(RunLoop(repo, nak, cleanse_from_rtfcre(raw), word,
                       <<InitialFrame(cleanse_from_rtfcre(raw), word)>>,
                       0, <<>>),
               raw, word)

\* C14: need_all_keys is on from the call of query_all on, so before the
\* query of any pair begins, and every decomposition a query of a bulk query
\* computes, and every one the bulk query returns, is complete or is the
\* fallback.
C14_BulkCompleteOrFallback ==
  /\ op = "all" => need_all_keys
  /\ \A i \in DOMAIN work :
       /\ work[i].pc # "waiting" => need_all_keys
       /\ work[i].pc = "done" =>
            work[i].out.complete \/ IsFallback(work[i].out)
  /\ BulkReturned =>
       \A k \in 1..Len(bulk_out) :
         bulk_out[k].complete \/ IsFallback(bulk_out[k])

\* A bulk query has returned the fallback for a pair that has a partial
\* decomposition when need_all_keys is off, and a complete decomposition for
\* another pair.
C14_Witness ==
  /\ BulkReturned
  /\ \E k \in 1..Len(bulk_out) :
       /\ IsFallback(bulk_out[k])
       /\ ~IsFallback(SequentialQuery(rules, FALSE, bulk_out[k].keys,
                                      bulk_out[k].letters))
  /\ \E k \in 1..Len(bulk_out) : bulk_out[k].complete

\* C15: the queries of a bulk query are those of the items that pass
\* filter_in, and the list returned holds the result of every such query that
\* passes filter_out, once for each, and nothing else.
C15_BulkFilters ==
  /\ op = "all" =>
       \A i \in 1..Len(items) :
         (i \in DOMAIN work) <=> PassesIn(filter_in, items[i])
  /\ BulkReturned =>
       LET passing == {i \in DOMAIN work : PassesOut(filter_out, work[i].out)}
       IN /\ Len(bulk_out) = Cardinality(passing)
          /\ \A i \in DOMAIN work :
               Cardinality({k \in 1..Len(bulk_out) : bulk_out[k] = work[i].out})
                 = Cardinality({j \in passing : work[j].out = work[i].out})

\* A bulk query of two items has returned one result: the first item was
\* rejected by filter_in, the result of the second passed filter_out.
C15_Witness ==
  /\ BulkReturned
  /\ filter_in # None
  /\ filter_out # None
  /\ Len(items) = 2
  /\ ~PassesIn(filter_in, items[1])
  /\ DOMAIN work = {2}
  /\ bulk_out = <<work[2].out>>

\* C16: a bulk query given an empty list of items makes no query, raises no
\* error and returns the empty list, and so does one given no items when no
\* translations are loaded.
C16_BulkEmpty ==
  /\ op = "all" => raised = "none" /\ pc # "error"
  /\ (op = "all" /\ items_arg.given /\ items_arg.list = <<>>) =>
       items = <<>>
  /\ (op = "all" /\ ~items_arg.given /\ translations = <<>>) => items = <<>>
  /\ (op = "all" /\ items = <<>>) => DOMAIN work = {}
  /\ (BulkReturned /\ items = <<>>) => bulk_out = <<>>

\* A bulk query given an empty list has returned the empty list while
\* translations were loaded.
C16_Witness ==
  /\ BulkReturned
  /\ items_arg = ItemList(<<>>)
  /\ translations # <<>>
  /\ bulk_out = <<>>

\* C17: in every interleaving of the queries of a bulk query, the query of
\* every pair, continued alone from the stack, best_letters and results it
\* has, returns what the query of that pair returns when run alone from the
\* start, and a query that has returned has returned just that.
C17_WorkersIndependent ==
  \A i \in DOMAIN work :
    LET w     == work[i]
        alone == SequentialQuery(rules, need_all_keys, w.keys, w.word)
    IN /\ w.pc = "done" => w.out = alone
       /\ w.pc = "search" =>
            query_return(RunLoop(rules, need_all_keys,
                                 cleanse_from_rtfcre(w.keys), w.word,
                                 w.stack, w.best_letters, w.results),
                         w.keys, w.word) = alone

\* Two queries of different pairs are both within their loops: one has
\* completed a rule map of two letters, the other has not yet expanded its
\* first frame.
C17_Witness ==
  \E i \in DOMAIN work : \E j \in DOMAIN work :
    /\ i # j
    /\ work[i].pc = "search"
    /\ work[i].best_letters = 2
    /\ work[i].stack # <<>>
    /\ work[j].pc = "search"
    /\ work[j].keys # work[i].keys
    /\ work[j].best_letters = 0
    /\ Len(work[j].stack) = 1
    /\ work[j].stack[1].rulemap = <<>>

\* C21: removing the same keys in two orders from a key string gives the
\* same key string.
C21_WithoutOrderIndependent ==
  (wo_result # <<>> /\ wo_result2 # <<>>) => wo_result[1] = wo_result2[1]

\* Two different orderings of the keys have been removed; one is a prefix of
\* the key string and is cut off, the other is removed key by key, and a key
\* is left.
C21_Witness ==
  /\ wo_result # <<>>
  /\ wo_result2 # <<>>
  /\ wo_perm # wo_other
  /\ Len(wo_other) < Len(wo_self)
  /\ SubSeq(wo_self, 1, Len(wo_other)) = wo_other
  /\ wo_result[1] # <<>>

\* The number of the occurrence of s[p] that position p of s is.
Rank(s, p) == Cardinality({j \in 1..p : s[j] = s[p]})

\* The positions of s that stay when the leftmost occurrences of the keys of
\* o are taken out, each key of o taking out one occurrence.
Staying(s, o) == {p \in 1..Len(s) : Rank(s, p) > Count(o, s[p])}

\* C22: without(self, other) returns the keys of self at the positions left
\* when every key of other takes out the leftmost occurrence of that key not
\* yet taken out, in their order in self: the multiset intersection of self
\* and other is removed, and no more.
C22_WithoutMultiset ==
  wo_result # <<>> =>
    /\ wo_result[1] =
         [k \in 1..Cardinality(Staying(wo_self, wo_other)) |->
            wo_self[Ascending(Staying(wo_self, wo_other))[k]]]
    /\ \A c \in StrokeTokens :
         Count(wo_result[1], c) =
           IF Count(wo_self, c) > Count(wo_other, c)
             THEN Count(wo_self, c) - Count(wo_other, c) ELSE 0

\* A key has been removed that occurs twice in the key string, together with
\* a key that does not occur in it: the second occurrence is left.
C22_Witness ==
  /\ wo_result # <<>>
  /\ \E c \in StrokeTokens : Count(wo_self, c) = 2 /\ Count(wo_other, c) = 1
  /\ \E c \in StrokeTokens : Count(wo_self, c) = 0 /\ Count(wo_other, c) = 1
  /\ Len(wo_result[1]) = Len(wo_self) - 1

\* The key sets of the child rules are pairwise disjoint and their union is
\* the parent's key set, the keys of ign left out.
DisjointCover(r, ign) ==
  /\ \A m \in 1..Len(r.rulemap) : \A n \in 1..Len(r.rulemap) :
       m # n => (KeySet(r.rulemap[m].keys) \cap KeySet(r.rulemap[n].keys)) \ ign = {}
  /\ (UNION {KeySet(r.rulemap[n].keys) : n \in 1..Len(r.rulemap)}) \ ign
       = KeySet(r.keys) \ ign

C25_ChildItemsInBounds ==
  (main_verdict = "passed" /\ rule.rulemap # <<>>) =>
    \A n \in 1..Len(rule.rulemap) :
      /\ rule.rulemap[n].start >= 0
      /\ rule.rulemap[n].length >= 0
      /\ rule.rulemap[n].start + rule.rulemap[n].length <= Len(rule.letters)

\* A rule has passed whose last item ends at the end of the parent's letters
\* without starting at their start.
C25_Witness ==
  /\ main_verdict = "passed"
  /\ Len(rule.rulemap) = 2
  /\ rule.rulemap[2].start > 0
  /\ rule.rulemap[2].start + rule.rulemap[2].length = Len(rule.letters)

\* The items of the dicts of the collection with their keys joined by "/",
\* each with the dict and the place it is at.
JoinedItems ==
  UNION {{<<i, n, join_strokes(pl_dicts[i][n][1]), pl_dicts[i][n][2]>> :
            n \in 1..Len(pl_dicts[i])} : i \in 1..Len(pl_dicts)}

\* C26: the collection made of a dict d and split_count >= 1 has split_count
\* dicts, every item of d is in exactly one place of them with its key split
\* into strokes, and the items of the dicts with their keys joined by "/"
\* are the items of d and nothing else.
C26_PloverRoundTrip ==
  pl_dicts # <<>> =>
    /\ Len(pl_dicts) = pl_split_count
    /\ \A n \in 1..Len(pl_d) :
         Cardinality({x \in JoinedItems :
                        x[3] = pl_d[n][1] /\ x[4] = pl_d[n][2]}) = 1
    /\ \A x \in JoinedItems :
         \E n \in 1..Len(pl_d) : x[3] = pl_d[n][1] /\ x[4] = pl_d[n][2]
    /\ \A i \in 1..Len(pl_dicts) : \A n \in 1..Len(pl_dicts[i]) :
         pl_dicts[i][n][1] = split(join_strokes(pl_dicts[i][n][1]))

\* A dict of three items, one with a key of two strokes and one with an
\* empty first stroke, has been made into a collection of two dicts of two
\* items and one item.
C26_Witness ==
  /\ pl_dicts # <<>>
  /\ pl_split_count = 2
  /\ Len(pl_d) = 3
  /\ Len(pl_dicts[1]) = 2
  /\ Len(pl_dicts[2]) = 1
  /\ \E n \in 1..2 : Len(pl_dicts[1][n][1]) = 2 /\ pl_dicts[1][n][1][1] = <<>>
  /\ Len(pl_dicts[2][1][1]) = 2

\* C27: at most one Application has been created and started, and every
\* construction of PloverDialog has returned the one window saved.
C27_DialogSingleton ==
  /\ apps_created <= 1
  /\ apps_started <= 1
  /\ constructed # <<>> =>
       /\ apps_created = 1
       /\ apps_started = 1
       /\ window # NoWindow
       /\ \A n \in 1..Len(constructed) : constructed[n].returned = window

\* PloverDialog has been constructed three times with different arguments.
C27_Witness ==
  /\ Len(constructed) = 3
  /\ constructed[1].args # constructed[2].args
  /\ constructed[2].args # constructed[3].args
  /\ constructed[3].returned = constructed[1].returned

\* The keys left of keys after the keys of the rules of path are removed.
RECURSIVE KeysAfter(_, _)
KeysAfter(keys, path) ==
  IF path = <<>> THEN keys
  ELSE KeysAfter(without(keys, RuleUniverse[Head(path)].keys), Tail(path))

\* The letters matched by the rules of path.
RECURSIVE LettersOf(_)
LettersOf(path) ==
  IF path = <<>> THEN 0
  ELSE Len(RuleUniverse[Head(path)].letters) + LettersOf(Tail(path))

\* The matched letter counts of the frames popped so far that had no keys
\* left.
CompleteCounts ==
  {LettersOf(popped[n]) :
     n \in {m \in 1..Len(popped) :
              KeysAfter(cleanse_from_rtfcre(q_keys), popped[m]) = <<>>}}

\* C28: during a search best_letters is the largest matched letter count of
\* the frames with no keys left popped so far, 0 if there is none; a pass of
\* the loop never lowers it, and a pass that pops a frame with no keys left
\* pushes nothing.
C28_BestLetters ==
  /\ [](pc = "search" =>
          /\ best_letters \in CompleteCounts \cup {0}
          /\ \A n \in CompleteCounts : n <= best_letters)
  /\ [][(pc = "search" /\ pc' = "search" /\ stack # <<>>) =>
          /\ best_letters' >= best_letters
          /\ Top(stack).test_keys = <<>> => stack' = Pop(stack)]_vars

\* A frame with no keys left and two letters matched has been popped, and
\* after it one with no keys left and fewer letters matched.
C28_Witness ==
  /\ pc = "search"
  /\ best_letters = 2
  /\ \E m \in 1..Len(popped) : \E n \in 1..Len(popped) :
       /\ m < n
       /\ KeysAfter(cleanse_from_rtfcre(q_keys), popped[m]) = <<>>
       /\ KeysAfter(cleanse_from_rtfcre(q_keys), popped[n]) = <<>>
       /\ LettersOf(popped[m]) = 2
       /\ LettersOf(popped[n]) < 2

\* The rules of a sequence of rules.
RulesOf(cands) == {cands[k] : k \in 1..Len(cands)}

\* The candidates of frame f that are found at an index of at most
\* len(remaining word) - (best_letters - matched letters).
WithinSpace(f, cands, best) ==
  {r \in RulesOf(cands) :
     find(f.test_word, RuleUniverse[r].letters)
       <= Len(f.test_word) - (best - f.lc)}

\* C29: a pass of the loop that expands a frame with keys left pushes one
\* frame for every candidate of the matcher found at an index i with
\* i <= space_left, space_left = len(remaining word) - (best_letters -
\* matched letters) with the best_letters at the start of the pass, and
\* pushes nothing else and nothing twice.
C29_PushedIffWithinSpace ==
  [][(pc = "search" /\ stack # <<>> /\ space_check
        /\ Top(stack).test_keys # <<>>) =>
       LET f    == Top(stack)
           n    == Len(stack)
           keep == WithinSpace(f, match(rules, f.test_keys, f.test_word,
                                        cleanse_from_rtfcre(q_keys), q_word,
                                        f.rulemap),
                               best_letters)
       IN /\ Len(stack') = n - 1 + Cardinality(keep)
          /\ {stack'[k].rulemap[Len(f.rulemap) + 1].rule :
                k \in n..Len(stack')} = keep]_vars

\* The frame that has the rule map given: its keys, word, pointer and letter
\* count follow from the rule map.
FrameOf(rulemap) ==
  LET wp == IF rulemap = <<>> THEN 0
            ELSE rulemap[Len(rulemap)].start + rulemap[Len(rulemap)].length
  IN Frame(KeysAfter(cleanse_from_rtfcre(q_keys), Path(rulemap)),
           Suffix(lower(q_word), wp), wp, SumLengths(rulemap), rulemap)

\* The frame on top of the stack was pushed by the last pass, which expanded
\* a frame of which the matcher returned a candidate too far to be pushed.
C29_Witness ==
  /\ pc = "search"
  /\ space_check
  /\ stack # <<>>
  /\ popped # <<>>
  /\ Top(stack).rulemap # <<>>
  /\ LET t == Top(stack)
         f == FrameOf(SubSeq(t.rulemap, 1, Len(t.rulemap) - 1))
         cands == match(rules, f.test_keys, f.test_word,
                        cleanse_from_rtfcre(q_keys), q_word, f.rulemap)
     IN /\ Path(f.rulemap) = popped[Len(popped)]
        /\ t.rulemap[Len(t.rulemap)].rule \in WithinSpace(f, cands, best_letters)
        /\ RulesOf(cands) \ WithinSpace(f, cands, best_letters) # {}

\* C30: every frame a pass of the loop pushes for a rule r found at index i
\* of the frame (K, W, p, lc, M) it popped is
\* (K.without(r.keys), W[i + len(r.letters):], p + i + len(r.letters),
\*  lc + len(r.letters), M + [(r, p + i, len(r.letters))]).
C30_PushedFrameExact ==
  [][(pc = "search" /\ stack # <<>>) =>
       LET f == Top(stack)
       IN \A k \in Len(stack)..Len(stack') :
            LET g == stack'[k]
                r == g.rulemap[Len(g.rulemap)].rule
                i == find(f.test_word, RuleUniverse[r].letters)
                n == Len(RuleUniverse[r].letters)
            IN i >= 0 =>
                 /\ g.test_keys = without(f.test_keys, RuleUniverse[r].keys)
                 /\ g.test_word = Suffix(f.test_word, i + n)
                 /\ g.wordptr = f.wordptr + i + n
                 /\ g.lc = f.lc + n
                 /\ g.rulemap =
                      f.rulemap \o <<RuleMapItem(r, f.wordptr + i, n)>>]_vars

\* The frame on top of the stack was pushed for a rule of one letter found
\* after a skipped letter, by a pass that popped a frame with an item in its
\* rule map.
C30_Witness ==
  /\ pc = "search"
  /\ stack # <<>>
  /\ popped # <<>>
  /\ Len(Top(stack).rulemap) = 2
  /\ Path(SubSeq(Top(stack).rulemap, 1, 1)) = popped[Len(popped)]
  /\ Top(stack).rulemap[2].length = 1
  /\ Top(stack).rulemap[2].start
       > Top(stack).rulemap[1].start + Top(stack).rulemap[1].length

\* The frames on the stack of the search in progress.
StackFrames == {stack[k] : k \in 1..Len(stack)}

\* C31: in every frame on the stack of a search, the word pointer and the
\* length of the remaining word add up to the length of the word the search
\* works on (the word in lower case, as long as the word given), the letter
\* count is the sum of the lengths of the items of the rule map, and the
\* letter count is at most the word pointer.
C31_FrameAccounting ==
  pc = "search" =>
    \A f \in StackFrames :
      /\ f.wordptr + Len(f.test_word) = Len(lower(q_word))
      /\ f.lc = SumLengths(f.rulemap)
      /\ f.lc <= f.wordptr

\* A frame is on the stack with two items in its rule map, with letters
\* matched and letters skipped, and with a letter of the word remaining.
C31_Witness ==
  /\ pc = "search"
  /\ \E f \in StackFrames :
       /\ Len(f.rulemap) = 2
       /\ 0 < f.lc
       /\ f.lc < f.wordptr
  /\ \E f \in StackFrames : f.rulemap # <<>> /\ f.test_word # <<>>

\* The keys of the rules of a rule map, one after the other.
RECURSIVE UsedKeys(_)
UsedKeys(rulemap) ==
  IF rulemap = <<>> THEN <<>>
  ELSE RuleUniverse[Head(rulemap).rule].keys \o UsedKeys(Tail(rulemap))

\* The keys of s left when every key of o takes out one occurrence of that
\* key, the leftmost one not yet taken out.
Remaining(s, o) ==
  [k \in 1..Cardinality(Staying(s, o)) |-> s[Ascending(Staying(s, o))[k]]]

\* Do the key strings hold every key the same number of times?
SameKeys(a, b) == \A c \in KeyAlphabet : Count(a, c) = Count(b, c)

\* C32: the remaining keys of every frame on the stack and of every result
\* yielded are the keys queried with the keys of every rule of the rule map
\* removed; a result has no keys remaining exactly when the keys of the
\* rules of its rule map are the keys queried.
C32_RemainingKeys ==
  pc = "search" =>
    LET keys == cleanse_from_rtfcre(q_keys)
    IN /\ \A f \in StackFrames :
            f.test_keys = Remaining(keys, UsedKeys(f.rulemap))
       /\ \A n \in 1..Len(results) :
            /\ results[n].unmatched
                 = Remaining(keys, UsedKeys(results[n].rulemap))
            /\ results[n].unmatched = <<>>
                 <=> SameKeys(UsedKeys(results[n].rulemap), keys)

\* Results have been yielded for a key string of two keys: one of a rule map
\* that used both, and one of a rule map that used the second key only and
\* left the first.
C32_Witness ==
  /\ pc = "search"
  /\ Len(cleanse_from_rtfcre(q_keys)) = 2
  /\ \E n \in 1..Len(results) :
       Len(results[n].rulemap) = 2 /\ results[n].unmatched = <<>>
  /\ \E n \in 1..Len(results) :
       /\ results[n].unmatched = <<cleanse_from_rtfcre(q_keys)[1]>>
       /\ UsedKeys(results[n].rulemap) = <<cleanse_from_rtfcre(q_keys)[2]>>
       /\ cleanse_from_rtfcre(q_keys)[1] # cleanse_from_rtfcre(q_keys)[2]

\* C33: in every rule map yielded, no item begins before the end of the item
\* before it.
C33_NoOverlap ==
  \A m \in YieldedMaps :
    \A k \in 1..(Len(m) - 1) : m[k + 1].start >= m[k].start + m[k].length

\* A rule map has been yielded whose second item begins where the first one
\* ends, and one whose second item begins after a letter skipped behind the
\* first one.
C33_Witness ==
  /\ \E m \in YieldedMaps :
       /\ Len(m) = 2
       /\ m[1].length > 0
       /\ m[2].start = m[1].start + m[1].length
  /\ \E m \in YieldedMaps :
       /\ Len(m) = 2
       /\ m[2].start > m[1].start + m[1].length

\* C34 as stated: a bulk query leaves need_all_keys as it was, so every
\* query of the same translation on the same lexer, before and after a bulk
\* query, runs with the same need_all_keys and returns the same result.
C34_OptionKept ==
  \A i, j \in 1..Len(answers) :
    /\ answers[i].need_all_keys = answers[j].need_all_keys
    /\ answers[i].result = answers[j].result

\* The calls of HistoryTracker that read a line.
HistoryReads == {"prev", "next", "get"}

\* C35: the first call of prev or next after add(s) returns s; every call of
\* prev, next or get reads at an index within the history and returns the
\* line there; and the first line of the history is the empty string.
C35_HistoryAccess ==
  /\ [](/\ h_lines[1] = ""
        /\ h_last.op \in HistoryReads =>
             /\ 0 <= h_last.at
             /\ h_last.at < Len(h_lines)
             /\ h_last.ret = h_lines[h_last.at + 1])
  /\ [][(h_last.op = "add" /\ h_last'.op \in {"prev", "next"}) =>
          h_last'.ret = h_last.arg]_vars

\* next has been called right after an add and has returned the line added,
\* which is not the line before it in the history.
C35_Witness ==
  /\ h_last.op = "next"
  /\ h_last.after = "add"
  /\ Len(h_lines) = 3
  /\ h_last.ret = h_lines[3]
  /\ h_lines[2] # h_lines[3]

\* str.rfind: the last 0-based index of pat in s, -1 if there is none.
rfind(str, pat) ==
  IF \E i \in 0..Len(str) : OccursAt(str, pat, i)
    THEN CHOOSE i \in 0..Len(str) :
           /\ OccursAt(str, pat, i)
           /\ \A j \in (i + 1)..Len(str) : ~OccursAt(str, pat, j)
    ELSE -1

\* C39 as stated: str_suffix(s, sep) returns the part of s after the last
\* occurrence of sep, and all of s when sep does not occur in it.
C39_AfterLastSep ==
  sx_result # <<>> =>
    sx_result[1] = IF rfind(sx_s, sx_sep) < 0 THEN sx_s
                   ELSE Suffix(sx_s, rfind(sx_s, sx_sep) + Len(sx_sep))

\* C40: when chars is a prefix of s, what str_without returns, s with the
\* prefix cut off, is what removing the leftmost occurrence of every
\* character of chars from s, one at a time, gives.
C40_FastPathAgrees ==
  (/\ wo_result # <<>>
   /\ Len(wo_other) <= Len(wo_self)
   /\ SubSeq(wo_self, 1, Len(wo_other)) = wo_other) =>
    /\ wo_result[1] = Suffix(wo_self, Len(wo_other))
    /\ wo_result[1] = Reduce_remove_char(wo_self, wo_other)

\* without has been called with a prefix of two keys of the key string, and
\* the first key of the prefix occurs again behind the prefix.
C40_Witness ==
  /\ wo_result # <<>>
  /\ Len(wo_other) = 2
  /\ Len(wo_self) = 3
  /\ SubSeq(wo_self, 1, 2) = wo_other
  /\ wo_self[3] = wo_other[1]
  /\ wo_result[1] = <<wo_self[3]>>

\* The names of the public attributes of ViewState.
PublicNames == DOMAIN ViewDefaults

\* The names a sequence of assignments assigns, and the value the last
\* assignment of a name gives it.
AssignedNames(log) == {log[i][1] : i \in 1..Len(log)}
LastAssigned(log, n) ==
  log[CHOOSE i \in 1..Len(log) :
        /\ log[i][1] = n
        /\ \A j \in (i + 1)..Len(log) : log[j][1] # n][2]

\* C36: get_modified returns the public attributes assigned since the
\* get_modified before it (since the construction for the first one), each
\* with the value assigned to it last, and no other, whatever update has
\* loaded in between; it leaves an empty tracker, so that
\* a second call right after it returns an empty dict; and no call of
\* update changes the tracker.
C36_ModifiedTracksAssignments ==
  /\ [][vs_last'.op = "get_modified" =>
          /\ vs_last'.ret =
               [n \in AssignedNames(vs_assigned) \cap PublicNames |->
                  LastAssigned(vs_assigned, n)]
          /\ vs_modified' = <<>>
          /\ (vs_last.op = "get_modified" => vs_last'.ret = <<>>)]_vars
  /\ [][vs_last'.op = "update" => vs_modified' = vs_modified]_vars

\* get_modified has returned the translation and the node reference an
\* action assigned, the translation with the mapping before the match, and
\* not the matches_per_page, the mapping and the match that update loaded.
C36_Witness ==
  /\ vs_last.op = "get_modified"
  /\ vs_attrs.matches_per_page = 2
  /\ "translation" \in DOMAIN vs_last.ret
  /\ "graph_node_ref" \in DOMAIN vs_last.ret
  /\ "matches_per_page" \notin DOMAIN vs_last.ret
  /\ "match_selected" \notin DOMAIN vs_last.ret
  /\ vs_last.ret.translation = <<K1, M1>>
  /\ vs_attrs.match_selected = M1
  /\ vs_modified = <<>>

\* C37 as stated: when the search for examples made by RUNSearchExamples
\* returns matches, match_selected is one of the matches returned and
\* _MORE_TEXT has not been appended to input_text.
C37_NeverSelectsMore ==
  (vs_last.op = "RUNSearchExamples" /\ vs_last.found # <<>>) =>
    /\ \E i \in 1..Len(vs_last.found) : vs_attrs.match_selected = vs_last.found[i]
    /\ \A i \in 1..Len(vs_attrs.input_text) :
         vs_attrs.input_text[i] # MORE_TEXT[1]

\* C38: a call of RUNGraphOver on a view state with graph_has_focus true
\* makes no call of engine.analyze and leaves every attribute and the
\* tracker as they were; a call of RUNGraphClick leaves graph_has_focus true
\* when graph_node_ref is not empty and false when it is.
C38_GraphFocus ==
  /\ [][(vs_ops' = vs_ops + 1 /\ vs_last'.op = "RUNGraphOver"
           /\ vs_attrs.graph_has_focus) =>
          /\ vs_last'.analyzed = 0
          /\ vs_attrs' = vs_attrs
          /\ vs_modified' = vs_modified]_vars
  /\ [][(vs_ops' = vs_ops + 1 /\ vs_last'.op = "RUNGraphClick") =>
          vs_attrs'.graph_has_focus = (vs_attrs'.graph_node_ref # <<>>)]_vars

\* RUNGraphOver has been called on a view state with the focus on a node and
\* a translation to query, which update loaded, and has made no query.
C38_Witness ==
  /\ vs_last.op = "RUNGraphOver"
  /\ vs_ops = 2
  /\ vs_attrs.graph_has_focus
  /\ vs_attrs.graph_node_ref = NodeRef
  /\ vs_attrs.translation = <<K1, M1>>
  /\ vs_attrs.graph_text = <<>>
  /\ vs_last.analyzed = 0

====
